---- MODULE Spec2Model ----
(***************************************************************************)
(* The README generator pipeline of src/tools.py: the metadata fetcher,    *)
(* the source sampler with its two detectors, the feature extractor and    *)
(* the README assembler, as operations a driving agent may call in any     *)
(* order.  A text is a sequence of one-character strings, so that           *)
(* substring tests, line splitting, prefix tests and the regular            *)
(* expressions of the source are computed character by character.  A       *)
(* character that a TLA+ string cannot hold is written by its code point:   *)
(* "U+0060" is the backquote and "U+1F310" the globe sign.                  *)
(***************************************************************************)
EXTENDS Integers, Sequences, FiniteSets, TLC

(***************************************************************************)
(* Python string operations                                                *)
(***************************************************************************)

\* [src/tools.py:422-423 str.lower]
UpperLetters == <<"A", "B", "C", "D", "E", "F", "G", "H", "I", "J", "K", "L", "M", "N", "O", "P",
        "Q", "R", "S", "T", "U", "V", "W", "X", "Y", "Z">>

\* [src/tools.py:422-423 str.lower]
LowerLetters == <<"a", "b", "c", "d", "e", "f", "g", "h", "i", "j", "k", "l", "m", "n", "o", "p",
        "q", "r", "s", "t", "u", "v", "w", "x", "y", "z">>

\* [src/tools.py:422-423 str.lower]
LowerTable == [c \in {UpperLetters[i] : i \in 1..26} |->
                 LowerLetters[CHOOSE i \in 1..26 : UpperLetters[i] = c]]

\* [src/tools.py:422-423 str.lower]
Lower(s) == [i \in 1..Len(s) |->
               IF s[i] \in DOMAIN LowerTable THEN LowerTable[s[i]] ELSE s[i]]

\* [src/tools.py:307-307 str.upper]
Upper(s) == [i \in 1..Len(s) |->
               IF \E k \in 1..26 : LowerLetters[k] = s[i]
               THEN UpperLetters[CHOOSE k \in 1..26 : LowerLetters[k] = s[i]]
               ELSE s[i]]

\* [src/tools.py:331-331 re \w]
WordChars == {UpperLetters[i] : i \in 1..26} \cup {LowerLetters[i] : i \in 1..26}
             \cup {"0", "1", "2", "3", "4", "5", "6", "7", "8", "9", "_"}

\* [src/tools.py:331-331 re \s]
SpaceChars == {" ", "\t", "\n", "\r", "\f"}

\* [src/tools.py:310-310 re quote class]
QuoteChars == {"'", "\""}

\* [src/tools.py:236-236 slice]
Take(s, n) == SubSeq(s, 1, IF Len(s) < n THEN Len(s) ELSE n)

\* [src/tools.py:564-564 slice]
Drop(s, n) == SubSeq(s, n + 1, Len(s))

\* the pattern p occurs in s at index i
\* [src/tools.py:517-517 str.startswith]
MatchLit(s, i, p) == /\ i >= 1
                     /\ i + Len(p) - 1 <= Len(s)
                     /\ \A j \in 1..Len(p) : s[i + j - 1] = p[j]

\* [src/tools.py:517-517 str.startswith]
StartsWith(s, p) == MatchLit(s, 1, p)

\* [src/tools.py:239-239 str.endswith]
EndsWith(s, p) == MatchLit(s, Len(s) - Len(p) + 1, p)

\* [src/tools.py:426-426 str.__contains__]
Contains(s, p) == \E i \in 1..(Len(s) - Len(p) + 1) : MatchLit(s, i, p)

\* the first index >= i of s whose character is not in set cs (Len(s) + 1 if none)
\* [src/tools.py:310-310 re greedy class]
RunEnd(s, i, cs) == IF \A k \in i..Len(s) : s[k] \in cs
                    THEN Len(s) + 1
                    ELSE CHOOSE k \in i..Len(s) : /\ s[k] \notin cs
                                                  /\ \A j \in i..(k - 1) : s[j] \in cs

\* the first index >= i of s whose character is in set cs (Len(s) + 1 if none)
\* [src/tools.py:310-310 re greedy negated class]
RunUntil(s, i, cs) == IF \A k \in i..Len(s) : s[k] \notin cs
                      THEN Len(s) + 1
                      ELSE CHOOSE k \in i..Len(s) : /\ s[k] \in cs
                                                    /\ \A j \in i..(k - 1) : s[j] \notin cs

RECURSIVE Split(_, _)
\* [src/tools.py:50-50 str.split]
Split(s, c) == LET k == RunUntil(s, 1, {c})
               IN IF k > Len(s) THEN <<s>>
                  ELSE <<SubSeq(s, 1, k - 1)>> \o Split(Drop(s, k), c)

\* line.split(":", 1)[1]
\* [src/tools.py:518-518 str.split maxsplit]
AfterFirst(s, c) == Drop(s, RunUntil(s, 1, {c}))

\* [src/tools.py:518-518 str.strip]
Strip(s) == LET a == RunEnd(s, 1, SpaceChars)
                b == IF a > Len(s) THEN 0
                     ELSE CHOOSE k \in a..Len(s) : /\ s[k] \notin SpaceChars
                                                   /\ \A j \in (k + 1)..Len(s) : s[j] \in SpaceChars
            IN SubSeq(s, a, b)

RECURSIVE JoinRange(_, _, _, _)
\* sep.join(parts[lo..hi]), halving the range
\* [src/tools.py:157-157 str.join]
JoinRange(sep, parts, lo, hi) ==
    IF lo > hi THEN << >>
    ELSE IF lo = hi THEN parts[lo]
    ELSE LET mid == (lo + hi) \div 2
         IN JoinRange(sep, parts, lo, mid) \o sep \o JoinRange(sep, parts, mid + 1, hi)

\* [src/tools.py:157-157 str.join]
Join(sep, parts) == JoinRange(sep, parts, 1, Len(parts))

(***************************************************************************)
(* The regular expressions of the detectors.  A matcher gives, for a start  *)
(* index, whether the expression matches there, the index after the match   *)
(* and what re.findall reports for it.                                      *)
(***************************************************************************)

NoMatch == [ok |-> FALSE, end |-> 0, val |-> << >>]

\* ['"]([^'"]+)['"] at index j: the index after the closing quote, 0 if no match
\* [src/tools.py:310-310 re quoted argument]
QuotedEnd(s, j) == IF j > Len(s) \/ s[j] \notin QuoteChars THEN 0
                   ELSE LET k == RunUntil(s, j + 1, QuoteChars)
                        IN IF k > j + 1 /\ k <= Len(s) THEN k + 1 ELSE 0

\* @app\.route\(['"]([^'"]+)['"]
\* [src/tools.py:310-310 re.findall routes]
MatchRoute(s, i) ==
    LET j == i + 11
        e == QuotedEnd(s, j)
    IN IF MatchLit(s, i, <<"@", "a", "p", "p", ".", "r", "o", "u", "t", "e", "(">>) /\ e > 0
       THEN [ok |-> TRUE, end |-> e, val |-> SubSeq(s, j + 1, e - 2)]
       ELSE NoMatch

\* [src/tools.py:316-316 re alternation (get|post|put|delete)]
HttpMethods == <<<<"g", "e", "t">>, <<"p", "o", "s", "t">>, <<"p", "u", "t">>, <<"d", "e", "l", "e", "t", "e">>>>

\* (get|post|put|delete)\(['"]([^'"]+)['"] at index i
\* [src/tools.py:316-316 re verb and path]
MatchVerbCall(s, i) ==
    LET ms == {k \in 1..4 : MatchLit(s, i, HttpMethods[k] \o <<"(">>)}
    IN IF ms = {} THEN NoMatch
       ELSE LET m == HttpMethods[CHOOSE k \in ms : TRUE]
                j == i + Len(m) + 1
                e == QuotedEnd(s, j)
            IN IF e > 0
               THEN [ok |-> TRUE, end |-> e, val |-> <<m, SubSeq(s, j + 1, e - 2)>>]
               ELSE NoMatch

\* @app\.(get|post|put|delete)\(['"]([^'"]+)['"]
\* [src/tools.py:316-316 re.findall endpoints]
MatchFastApi(s, i) == IF MatchLit(s, i, <<"@", "a", "p", "p", ".">>) THEN MatchVerbCall(s, i + 5) ELSE NoMatch

\* app\.(get|post|put|delete)\(['"]([^'"]+)['"]
\* [src/tools.py:378-378 re.findall routes]
MatchExpress(s, i) == IF MatchLit(s, i, <<"a", "p", "p", ".">>) THEN MatchVerbCall(s, i + 4) ELSE NoMatch

\* <keyword>\s+(\w+) at index i
\* [src/tools.py:331-335 re keyword and name]
MatchKeywordName(s, i, kw) ==
    LET a == i + Len(kw)
        b == RunEnd(s, a, SpaceChars)
        e == RunEnd(s, b, WordChars)
    IN IF MatchLit(s, i, kw) /\ b > a /\ e > b
       THEN [ok |-> TRUE, end |-> e, val |-> SubSeq(s, b, e - 1)]
       ELSE NoMatch

\* class\s+(\w+)
\* [src/tools.py:331-331 re.findall classes]
MatchClass(s, i) == MatchKeywordName(s, i, <<"c", "l", "a", "s", "s">>)

\* def\s+(\w+)
\* [src/tools.py:335-335 re.findall functions]
MatchDef(s, i) == MatchKeywordName(s, i, <<"d", "e", "f">>)

\* from\s+['"][^'"]+['"] at index k: the index after the match, 0 if no match
\* [src/tools.py:371-371 re from clause]
FromClauseEnd(s, k) == LET a == k + 4
                           b == RunEnd(s, a, SpaceChars)
                       IN IF MatchLit(s, k, <<"f", "r", "o", "m">>) /\ b > a THEN QuotedEnd(s, b) ELSE 0

\* (?:import.*from\s+['"][^'"]+['"]|require\(['"][^'"]+['"]), reported whole
\* [src/tools.py:371-371 re.findall imports]
MatchJsImport(s, i) ==
    IF MatchLit(s, i, <<"i", "m", "p", "o", "r", "t">>)
    THEN LET eol == RunUntil(s, i + 6, {"\n"})
             ks  == {k \in (i + 6)..eol : FromClauseEnd(s, k) > 0}
         IN IF ks = {} THEN NoMatch
            ELSE LET k == CHOOSE x \in ks : \A y \in ks : y <= x
                     e == FromClauseEnd(s, k)
                 IN [ok |-> TRUE, end |-> e, val |-> SubSeq(s, i, e - 1)]
    ELSE IF MatchLit(s, i, <<"r", "e", "q", "u", "i", "r", "e", "(">>)
    THEN LET e == QuotedEnd(s, i + 8)
         IN IF e > 0 THEN [ok |-> TRUE, end |-> e, val |-> SubSeq(s, i, e - 1)]
            ELSE NoMatch
    ELSE NoMatch

\* const\s+(\w+)\s*=\s*(?:\([^)]*\)\s*=>|\w+) after the name, from index e
\* [src/tools.py:391-391 re const initialiser]
ConstInitEnd(s, e) ==
    LET c == RunEnd(s, e, SpaceChars)
        d == RunEnd(s, c + 1, SpaceChars)
    IN IF ~(c <= Len(s) /\ s[c] = "=") THEN 0
       ELSE IF d <= Len(s) /\ s[d] = "("
       THEN LET p == RunUntil(s, d + 1, {")"})
                q == RunEnd(s, p + 1, SpaceChars)
            IN IF p <= Len(s) /\ MatchLit(s, q, <<"=", ">">>) THEN q + 2 ELSE 0
       ELSE LET w == RunEnd(s, d, WordChars)
            IN IF w > d THEN w ELSE 0

\* the match of the const alternative, given the name's match c and the index e
\* after the initialiser
\* [src/tools.py:391-391 re const alternative]
JsConstMatch(c, e) ==
    IF c.ok /\ e > 0 THEN [ok |-> TRUE, end |-> e, val |-> << << >>, c.val>>] ELSE NoMatch

\* the alternation, given the matches f and c of its two keywords
\* [src/tools.py:391-391 re alternation function|const]
JsFuncOrConst(s, f, c) ==
    IF f.ok THEN [ok |-> TRUE, end |-> f.end, val |-> <<f.val, << >> >>]
    ELSE JsConstMatch(c, IF c.ok THEN ConstInitEnd(s, c.end) ELSE 0)

\* (?:function\s+(\w+)|const\s+(\w+)\s*=\s*(?:\([^)]*\)\s*=>|\w+)): both groups
\* [src/tools.py:391-391 re.findall functions]
MatchJsFunc(s, i) ==
    JsFuncOrConst(s, MatchKeywordName(s, i, <<"f", "u", "n", "c", "t", "i", "o", "n">>), MatchKeywordName(s, i, <<"c", "o", "n", "s", "t">>))

\* [src/tools.py:464-464 re alternation (GET|POST|PUT|DELETE)]
HttpVerbs == <<<<"G", "E", "T">>, <<"P", "O", "S", "T">>, <<"P", "U", "T">>, <<"D", "E", "L", "E", "T", "E">>>>

\* - (GET|POST|PUT|DELETE) [^\n]+ : findall reports the one group, the verb
\* [src/tools.py:464-464 re.findall endpoint lines]
MatchEndpointLine(s, i) ==
    LET vs == {k \in 1..4 : MatchLit(s, i, <<"-", " ">> \o HttpVerbs[k] \o <<" ">>)}
    IN IF vs = {} THEN NoMatch
       ELSE LET v == HttpVerbs[CHOOSE k \in vs : TRUE]
                a == i + Len(v) + 3
                e == RunUntil(s, a, {"\n"})
            IN IF e > a THEN [ok |-> TRUE, end |-> e, val |-> v] ELSE NoMatch

RECURSIVE FindAllFrom(_, _)
\* re.findall from index i: leftmost matches, left to right, none overlapping;
\* ms[k] is the match of the expression at index k
\* [src/tools.py:310-310 re.findall]
FindAllFrom(ms, i) ==
    LET later == {k \in i..Len(ms) : ms[k].ok}
    IN IF later = {} THEN << >>
       ELSE LET k == CHOOSE x \in later : \A j \in later : x <= j
            IN <<ms[k].val>> \o FindAllFrom(ms, ms[k].end)

\* [src/tools.py:310-310 re.findall]
FindAll(ms) == FindAllFrom(ms, 1)

(***************************************************************************)
(* The detectors                                                           *)
(***************************************************************************)

\* [src/tools.py:291-299 analyze_python_code]
EmptyAnalysis == [main_functionality |-> << >>, key_classes |-> << >>,
                  key_functions |-> << >>, imports |-> << >>,
                  entry_points |-> << >>, apis_endpoints |-> << >>,
                  cli_commands |-> << >>]

\* [src/tools.py:303-304 analyze_python_code]
StripAll(lines) == [i \in 1..Len(lines) |-> Strip(lines[i])]

\* [src/tools.py:303-304 analyze_python_code]
PyImportLines(content) ==
    Take(SelectSeq(StripAll(Split(content, "\n")),
                   LAMBDA l : StartsWith(l, <<"i", "m", "p", "o", "r", "t", " ">>) \/ StartsWith(l, <<"f", "r", "o", "m", " ">>)), 10)

\* FlaskEndpoint with the label of one verb only: what C4 must tell from it
FlaskEndpointGetOnly(route) == <<"G", "E", "T", " ">> \o route

\* [src/tools.py:311-311 analyze_python_code]
FlaskEndpoint(route) == <<"G", "E", "T", "/", "P", "O", "S", "T", " ">> \o route

\* [src/tools.py:307-311 analyze_python_code]
FlaskEndpoints(routes) == [i \in 1..Len(routes) |-> FlaskEndpoint(routes[i])]

\* [src/tools.py:307-311 analyze_python_code]
PyFlaskRoutes(content) ==
    IF Contains(Lower(content), <<"f", "l", "a", "s", "k">>)
    THEN FlaskEndpoints(FindAll([k \in 1..Len(content) |-> MatchRoute(content, k)]))
    ELSE << >>

\* [src/tools.py:313-317 analyze_python_code]
VerbEndpoints(endpoints) ==
    [i \in 1..Len(endpoints) |-> Upper(endpoints[i][1]) \o <<" ">> \o endpoints[i][2]]

\* [src/tools.py:313-317 analyze_python_code]
PyFastApiEndpoints(content) ==
    IF Contains(Lower(content), <<"f", "a", "s", "t", "a", "p", "i">>)
    THEN VerbEndpoints(FindAll([k \in 1..Len(content) |-> MatchFastApi(content, k)]))
    ELSE << >>

\* [src/tools.py:327-327 analyze_python_code]
MlLibraries == <<<<"p", "a", "n", "d", "a", "s">>, <<"n", "u", "m", "p", "y">>, <<"s", "k", "l", "e", "a", "r", "n">>, <<"t", "e", "n", "s", "o", "r", "f", "l", "o", "w">>, <<"p", "y", "t", "o", "r", "c", "h">>>>

\* [src/tools.py:306-328 analyze_python_code]
PyFunctionality(content) ==
    LET lc == Lower(content)
    IN (IF Contains(lc, <<"f", "l", "a", "s", "k">>) THEN <<<<"F", "l", "a", "s", "k", " ", "w", "e", "b", " ", "a", "p", "p", "l", "i", "c",
            "a", "t", "i", "o", "n">>>> ELSE << >>)
       \o (IF Contains(lc, <<"f", "a", "s", "t", "a", "p", "i">>) THEN <<<<"F", "a", "s", "t", "A", "P", "I", " ", "w", "e", "b", " ", "s", "e", "r", "v",
               "i", "c", "e">>>> ELSE << >>)
       \o (IF Contains(lc, <<"d", "j", "a", "n", "g", "o">>) THEN <<<<"D", "j", "a", "n", "g", "o", " ", "w", "e", "b", " ", "a", "p", "p", "l", "i",
               "c", "a", "t", "i", "o", "n">>>> ELSE << >>)
       \o (IF Contains(lc, <<"a", "r", "g", "p", "a", "r", "s", "e">>) \/ Contains(lc, <<"c", "l", "i", "c", "k">>)
           THEN <<<<"C", "o", "m", "m", "a", "n", "d", "-", "l", "i", "n", "e", " ", "i", "n", "t",
                   "e", "r", "f", "a", "c", "e", " ", "t", "o", "o", "l">>>> ELSE << >>)
       \o (IF \E k \in 1..Len(MlLibraries) : Contains(lc, MlLibraries[k])
           THEN <<<<"D", "a", "t", "a", " ", "s", "c", "i", "e", "n", "c", "e", "/", "M", "a", "c",
                   "h", "i", "n", "e", " ", "l", "e", "a", "r", "n", "i", "n", "g", " ", "p", "r",
                   "o", "j", "e", "c", "t">>>> ELSE << >>)

\* [src/tools.py:280-345 analyze_python_code]
AnalyzePythonCode(content, filename) ==
    [main_functionality |-> PyFunctionality(content),
     key_classes        |-> Take(FindAll([k \in 1..Len(content) |-> MatchClass(content, k)]), 5),
     key_functions      |-> Take(FindAll([k \in 1..Len(content) |-> MatchDef(content, k)]), 10),
     imports            |-> PyImportLines(content),
     entry_points       |-> IF Contains(content, <<"i", "f", " ", "_", "_", "n", "a", "m", "e", "_", "_", " ", "=", "=", " ", "\"",
             "_", "_", "m", "a", "i", "n", "_", "_", "\"">>)
                            THEN <<filename \o <<" ", "(", "m", "a", "i", "n", " ", "s", "c", "r", "i", "p", "t", ")">>>> ELSE << >>,
     apis_endpoints     |-> PyFlaskRoutes(content) \o PyFastApiEndpoints(content),
     cli_commands       |-> << >>]

\* [src/tools.py:375-388 analyze_js_code]
JsFunctionality(content) ==
    LET lc == Lower(content)
    IN (IF Contains(lc, <<"e", "x", "p", "r", "e", "s", "s">>) THEN <<<<"E", "x", "p", "r", "e", "s", "s", ".", "j", "s", " ", "w", "e", "b", " ", "s",
            "e", "r", "v", "e", "r">>>> ELSE << >>)
       \o (IF Contains(lc, <<"r", "e", "a", "c", "t">>) THEN <<<<"R", "e", "a", "c", "t", " ", "a", "p", "p", "l", "i", "c", "a", "t", "i", "o",
               "n">>>> ELSE << >>)
       \o (IF Contains(lc, <<"v", "u", "e">>) THEN <<<<"V", "u", "e", ".", "j", "s", " ", "a", "p", "p", "l", "i", "c", "a", "t", "i",
               "o", "n">>>> ELSE << >>)
       \o (IF Contains(lc, <<"a", "n", "g", "u", "l", "a", "r">>) THEN <<<<"A", "n", "g", "u", "l", "a", "r", " ", "a", "p", "p", "l", "i", "c", "a", "t",
               "i", "o", "n">>>> ELSE << >>)

\* [src/tools.py:375-379 analyze_js_code]
JsExpressRoutes(content) ==
    IF Contains(Lower(content), <<"e", "x", "p", "r", "e", "s", "s">>)
    THEN VerbEndpoints(FindAll([k \in 1..Len(content) |-> MatchExpress(content, k)]))
    ELSE << >>

\* [src/tools.py:391-393 analyze_js_code]
FunctionNames(func_matches) ==
    [i \in 1..Len(func_matches) |->
        IF func_matches[i][1] # << >> THEN func_matches[i][1] ELSE func_matches[i][2]]

\* [src/tools.py:391-393 analyze_js_code]
JsFunctions(content) ==
    FunctionNames(SelectSeq(FindAll([k \in 1..Len(content) |-> MatchJsFunc(content, k)]),
                            LAMBDA m : m[1] # << >> \/ m[2] # << >>))

\* [src/tools.py:348-402 analyze_js_code]
AnalyzeJsCode(content, filename) ==
    [main_functionality |-> JsFunctionality(content),
     key_classes        |-> Take(FindAll([k \in 1..Len(content) |-> MatchClass(content, k)]), 5),
     key_functions      |-> Take(JsFunctions(content), 10),
     imports            |-> Take(FindAll([k \in 1..Len(content) |-> MatchJsImport(content, k)]), 10),
     entry_points       |-> << >>,
     apis_endpoints     |-> JsExpressRoutes(content),
     cli_commands       |-> << >>]

(***************************************************************************)
(* The network.  A world holds the one repository that exists, what the     *)
(* hosting API answers about it, the raw files its branches hold and the    *)
(* requests that fail with a network exception or a timeout.                *)
(***************************************************************************)

\* Python's None, as a value no text equals
\* [src/tools.py:81-81 None]
NoneVal == <<"<None>">>

\* str() of a value that may be None, as an f-string renders it
\* [src/tools.py:156-156 f-string conversion]
Str(v) == IF v = NoneVal THEN <<"N", "o", "n", "e">> ELSE v

\* [src/tools.py:159-159 f-string int conversion]
Digits == <<"0", "1", "2", "3", "4", "5", "6", "7", "8", "9">>

RECURSIVE IntToStr(_)
\* [src/tools.py:159-159 f-string int conversion]
IntToStr(n) == IF n < 10 THEN <<Digits[n + 1]>>
               ELSE IntToStr(n \div 10) \o <<Digits[(n % 10) + 1]>>

\* requests.get(...): [status, text, data]; status "exception" is a raised fault,
\* "bad_json" a 200 whose body response.json() cannot parse
\* [src/tools.py:77-78 requests.get]
HttpError == [status |-> "http_error", text |-> << >>]

\* [src/tools.py:110-114 requests.get raising]
NetException == [status |-> "exception", text |-> << >>]

\* the answer of raw.githubusercontent.com for owner/repo/branch/path
\* [src/tools.py:108-111 requests.get raw_url]
RawResponse(world, owner, repo_name, branch, path) ==
    IF <<branch, path>> \in world.down THEN NetException
    ELSE IF world.repo # <<owner, repo_name>> THEN HttpError
    ELSE LET hits == {f \in world.files : f.branch = branch /\ f.path = path}
         IN IF hits = {} THEN HttpError
            ELSE [status |-> "ok", text |-> (CHOOSE f \in hits : TRUE).text]

\* [src/tools.py:108-108 raw_url]
RawRequest(branch, path) == <<"raw", branch, path>>

(***************************************************************************)
(* fetch_comprehensive_repo_info                                           *)
(***************************************************************************)

\* github_url with one trailing "/" removed
\* [src/tools.py:47-48 fetch_comprehensive_repo_info]
StripTrailingSlash(github_url) ==
    IF EndsWith(github_url, <<"/">>) THEN SubSeq(github_url, 1, Len(github_url) - 1)
    ELSE github_url

\* [src/tools.py:52-52 fetch_comprehensive_repo_info]
InvalidUrlMessage == <<"I", "n", "v", "a", "l", "i", "d", " ", "G", "i", "t", "H", "u", "b", " ", "U",
        "R", "L", " ", "f", "o", "r", "m", "a", "t">>

\* [src/tools.py:57-72 fetch_comprehensive_repo_info]
InitialInfo(github_url, owner, repo_name) ==
    [repo_name |-> repo_name, owner |-> owner, url |-> github_url, readme |-> << >>,
     package_info |-> << >>, languages |-> [kind |-> "dict", s |-> << >>, items |-> << >>],
     description |-> << >>, topics |-> << >>, license |-> << >>,
     created_at |-> << >>, updated_at |-> << >>, default_branch |-> <<"m", "a", "i", "n">>,
     homepage |-> <<"N", "o", "n", "e">>, stars |-> <<"U", "n", "k", "n", "o", "w", "n">>, forks |-> <<"U", "n", "k", "n", "o", "w", "n">>]

\* the repository call: info.update(...) on a 200 whose JSON parses, nothing otherwise
\* [src/tools.py:75-93 fetch_comprehensive_repo_info]
AfterApiCall(info, api) ==
    IF api.status # "ok" THEN info
    ELSE [info EXCEPT
            !.description = Str(api.data.description),
            !.topics = api.data.topics,
            !.languages = IF api.data.language = NoneVal
                          THEN [kind |-> "null", s |-> << >>, items |-> << >>]
                          ELSE [kind |-> "str", s |-> api.data.language, items |-> << >>],
            !.stars = IntToStr(api.data.stargazers_count),
            !.forks = IntToStr(api.data.forks_count),
            !.license = IF api.data.license = NoneVal THEN << >> ELSE api.data.license,
            !.created_at = api.data.created_at,
            !.updated_at = api.data.updated_at,
            !.default_branch = api.data.default_branch,
            !.homepage = Str(api.data.homepage)]

\* the languages call
\* [src/tools.py:96-102 fetch_comprehensive_repo_info]
AfterLanguagesCall(info, lang) ==
    IF lang.status # "ok" THEN info
    ELSE [info EXCEPT !.languages = [kind |-> "dict", s |-> << >>, items |-> lang.items]]

\* [src/tools.py:105-105 fetch_comprehensive_repo_info]
readme_files == <<<<"R", "E", "A", "D", "M", "E", ".", "m", "d">>, <<"R", "E", "A", "D", "M", "E", ".", "r", "s", "t">>, <<"R", "E", "A", "D", "M", "E", ".", "t", "x", "t">>, <<"r", "e", "a", "d", "m", "e", ".", "m", "d">>, <<"R", "e", "a", "d", "m", "e", ".", "m", "d">>>>

\* [src/tools.py:106-106 fetch_comprehensive_repo_info]
ProbeBranches(info) == <<info.default_branch, <<"m", "a", "i", "n">>, <<"m", "a", "s", "t", "e", "r">>>>

\* [src/tools.py:112-112 fetch_comprehensive_repo_info]
ReadmeLimit == 8000

RECURSIVE ReadmeInner(_, _, _, _)
\* the inner loop over readme_files on one branch, from file k: whether a request
\* returned 200, the text kept and the requests issued
\* [src/tools.py:107-115 fetch_comprehensive_repo_info]
ReadmeInner(world, info, branch, k) ==
    IF k > Len(readme_files) THEN [hit |-> FALSE, text |-> << >>, log |-> << >>]
    ELSE LET r == RawResponse(world, info.owner, info.repo_name, branch, readme_files[k])
             req == RawRequest(branch, readme_files[k])
         IN IF r.status = "ok"
            THEN [hit |-> TRUE, text |-> Take(r.text, ReadmeLimit), log |-> <<req>>]
            ELSE LET rest == ReadmeInner(world, info, branch, k + 1)
                 IN [rest EXCEPT !.log = <<req>> \o rest.log]

RECURSIVE ReadmeProbe(_, _, _, _)
\* the outer loop over the branches, from branch b, with the README kept so far
\* [src/tools.py:106-117 fetch_comprehensive_repo_info]
ReadmeProbe(world, info, b, readme) ==
    IF b > Len(ProbeBranches(info)) THEN [readme |-> readme, log |-> << >>]
    ELSE LET inner == ReadmeInner(world, info, ProbeBranches(info)[b], 1)
             kept  == IF inner.hit THEN inner.text ELSE readme
         IN IF kept # << >> THEN [readme |-> kept, log |-> inner.log]
            ELSE LET rest == ReadmeProbe(world, info, b + 1, kept)
                 IN [rest EXCEPT !.log = inner.log \o rest.log]

\* [src/tools.py:120-137 fetch_comprehensive_repo_info]
package_files == <<
    <<<<"p", "a", "c", "k", "a", "g", "e", ".", "j", "s", "o", "n">>, <<"n", "p", "m", "/", "n", "o", "d", "e", ".", "j", "s">>>>,
    <<<<"r", "e", "q", "u", "i", "r", "e", "m", "e", "n", "t", "s", ".", "t", "x", "t">>, <<"p", "y", "t", "h", "o", "n", "/", "p", "i", "p">>>>,
    <<<<"P", "i", "p", "f", "i", "l", "e">>, <<"p", "y", "t", "h", "o", "n", "/", "p", "i", "p", "e", "n", "v">>>>,
    <<<<"p", "y", "p", "r", "o", "j", "e", "c", "t", ".", "t", "o", "m", "l">>, <<"p", "y", "t", "h", "o", "n", "/", "p", "o", "e", "t", "r", "y">>>>,
    <<<<"s", "e", "t", "u", "p", ".", "p", "y">>, <<"p", "y", "t", "h", "o", "n", "/", "s", "e", "t", "u", "p", "t", "o", "o", "l",
            "s">>>>,
    <<<<"C", "a", "r", "g", "o", ".", "t", "o", "m", "l">>, <<"r", "u", "s", "t", "/", "c", "a", "r", "g", "o">>>>,
    <<<<"g", "o", ".", "m", "o", "d">>, <<"g", "o", "/", "m", "o", "d", "u", "l", "e", "s">>>>,
    <<<<"p", "o", "m", ".", "x", "m", "l">>, <<"j", "a", "v", "a", "/", "m", "a", "v", "e", "n">>>>,
    <<<<"b", "u", "i", "l", "d", ".", "g", "r", "a", "d", "l", "e">>, <<"j", "a", "v", "a", "/", "g", "r", "a", "d", "l", "e">>>>,
    <<<<"c", "o", "m", "p", "o", "s", "e", "r", ".", "j", "s", "o", "n">>, <<"p", "h", "p", "/", "c", "o", "m", "p", "o", "s", "e", "r">>>>,
    <<<<"D", "o", "c", "k", "e", "r", "f", "i", "l", "e">>, <<"d", "o", "c", "k", "e", "r">>>>,
    <<<<"d", "o", "c", "k", "e", "r", "-", "c", "o", "m", "p", "o", "s", "e", ".", "y",
            "m", "l">>, <<"d", "o", "c", "k", "e", "r", "-", "c", "o", "m", "p", "o", "s", "e">>>>,
    <<<<"M", "a", "k", "e", "f", "i", "l", "e">>, <<"m", "a", "k", "e">>>>,
    <<<<"C", "M", "a", "k", "e", "L", "i", "s", "t", "s", ".", "t", "x", "t">>, <<"c", "m", "a", "k", "e">>>>,
    <<<<".", "g", "i", "t", "h", "u", "b", "/", "w", "o", "r", "k", "f", "l", "o", "w",
            "s", "/", "c", "i", ".", "y", "m", "l">>, <<"g", "i", "t", "h", "u", "b", "-", "a", "c", "t", "i", "o", "n", "s">>>>,
    <<<<".", "g", "i", "t", "h", "u", "b", "/", "w", "o", "r", "k", "f", "l", "o", "w",
            "s", "/", "m", "a", "i", "n", ".", "y", "m", "l">>, <<"g", "i", "t", "h", "u", "b", "-", "a", "c", "t", "i", "o", "n", "s">>>> >>

\* [src/tools.py:145-145 fetch_comprehensive_repo_info]
PackageLimit == 3000

\* d[key] = value on a dict kept as a sequence of <<key, value>> in insertion order
\* [src/tools.py:146-146 dict.__setitem__]
DictSet(d, key, value) ==
    IF \E i \in 1..Len(d) : d[i][1] = key
    THEN [i \in 1..Len(d) |-> IF d[i][1] = key THEN <<key, value>> ELSE d[i]]
    ELSE Append(d, <<key, value>>)

RECURSIVE PackageInner(_, _, _, _)
\* the branch loop for descriptor n, from branch b
\* [src/tools.py:140-149 fetch_comprehensive_repo_info]
PackageInner(world, info, n, b) ==
    IF b > Len(ProbeBranches(info)) THEN [hit |-> FALSE, text |-> << >>, log |-> << >>]
    ELSE LET branch == ProbeBranches(info)[b]
             r == RawResponse(world, info.owner, info.repo_name, branch, package_files[n][1])
             req == RawRequest(branch, package_files[n][1])
         IN IF r.status = "ok"
            THEN [hit |-> TRUE, text |-> Take(r.text, PackageLimit), log |-> <<req>>]
            ELSE LET rest == PackageInner(world, info, n, b + 1)
                 IN [rest EXCEPT !.log = <<req>> \o rest.log]

RECURSIVE PackageProbe(_, _, _, _)
\* the loop over package_files, from descriptor n, with package_info so far
\* [src/tools.py:139-149 fetch_comprehensive_repo_info]
PackageProbe(world, info, n, package_info) ==
    IF n > Len(package_files) THEN [package_info |-> package_info, log |-> << >>]
    ELSE LET inner == PackageInner(world, info, n, 1)
             next  == IF inner.hit THEN DictSet(package_info, package_files[n][2], inner.text)
                      ELSE package_info
             rest  == PackageProbe(world, info, n + 1, next)
         IN [rest EXCEPT !.log = inner.log \o rest.log]

\* json.dumps of a string
\* [src/tools.py:168-168 json.dumps str]
JsonString(s) ==
    LET Esc(c) == CASE c = "\"" -> <<"\\", "\"">>
                    [] c = "\\" -> <<"\\", "\\">>
                    [] c = "\n" -> <<"\\", "n">>
                    [] c = "\t" -> <<"\\", "t">>
                    [] c = "\r" -> <<"\\", "r">>
                    [] c = "\f" -> <<"\\", "f">>
                    [] OTHER    -> <<c>>
    IN <<"\"">> \o Join(<< >>, [k \in 1..Len(s) |-> Esc(s[k])]) \o <<"\"">>

\* json.dumps(d, indent=2) of a dict whose values are already rendered
\* [src/tools.py:165-168 json.dumps dict indent=2]
JsonObject(d) ==
    IF Len(d) = 0 THEN <<"{", "}">>
    ELSE <<"{", "\n">>
         \o Join(<<",", "\n">>, [i \in 1..Len(d) |-> <<" ", " ">> \o JsonString(d[i][1]) \o <<":", " ">> \o d[i][2]])
         \o <<"\n", "}">>

\* [src/tools.py:165-165 json.dumps languages]
JsonLanguages(l) ==
    CASE l.kind = "null" -> <<"n", "u", "l", "l">>
      [] l.kind = "str"  -> JsonString(l.s)
      [] l.kind = "dict" ->
           JsonObject([i \in 1..Len(l.items) |-> <<l.items[i][1], IntToStr(l.items[i][2])>>])

\* [src/tools.py:168-168 json.dumps package_info]
JsonPackages(d) == JsonObject([i \in 1..Len(d) |-> <<d[i][1], JsonString(d[i][2])>>])

\* ReadmeBlock without the placeholder: what C6 must tell from it
ReadmeBlockBare(readme) == readme

\* [src/tools.py:171-171 fetch_comprehensive_repo_info]
ReadmeBlock(readme) == IF readme # << >> THEN readme ELSE <<"N", "o", " ", "R", "E", "A", "D", "M", "E", " ", "f", "o", "u", "n", "d">>

\* [src/tools.py:152-172 fetch_comprehensive_repo_info]
FormatRepoInfo(info) ==
    <<"R", "e", "p", "o", "s", "i", "t", "o", "r", "y", " ", "I", "n", "f", "o", "r",
            "m", "a", "t", "i", "o", "n", ":", "\n">>
    \o <<"N", "a", "m", "e", ":", " ">> \o info.repo_name \o <<"\n">>
    \o <<"O", "w", "n", "e", "r", ":", " ">> \o info.owner \o <<"\n">>
    \o <<"U", "R", "L", ":", " ">> \o info.url \o <<"\n">>
    \o <<"D", "e", "s", "c", "r", "i", "p", "t", "i", "o", "n", ":", " ">> \o info.description \o <<"\n">>
    \o <<"T", "o", "p", "i", "c", "s", ":", " ">> \o Join(<<",", " ">>, info.topics) \o <<"\n">>
    \o <<"H", "o", "m", "e", "p", "a", "g", "e", ":", " ">> \o info.homepage \o <<"\n">>
    \o <<"S", "t", "a", "r", "s", ":", " ">> \o info.stars \o <<"\n">>
    \o <<"F", "o", "r", "k", "s", ":", " ">> \o info.forks \o <<"\n">>
    \o <<"L", "i", "c", "e", "n", "s", "e", ":", " ">> \o info.license \o <<"\n">>
    \o <<"C", "r", "e", "a", "t", "e", "d", ":", " ">> \o info.created_at \o <<"\n">>
    \o <<"U", "p", "d", "a", "t", "e", "d", ":", " ">> \o info.updated_at \o <<"\n">>
    \o <<"D", "e", "f", "a", "u", "l", "t", " ", "B", "r", "a", "n", "c", "h", ":", " ">> \o info.default_branch \o <<"\n">>
    \o <<"L", "a", "n", "g", "u", "a", "g", "e", "s", ":", " ">> \o JsonLanguages(info.languages) \o <<"\n">>
    \o <<"\n", "C", "o", "n", "f", "i", "g", "u", "r", "a", "t", "i", "o", "n", "/", "P",
            "a", "c", "k", "a", "g", "e", " ", "F", "i", "l", "e", "s", " ", "F", "o", "u",
            "n", "d", ":", "\n">>
    \o (IF info.package_info # << >> THEN JsonPackages(info.package_info) ELSE <<"N", "o", "n", "e", " ", "f", "o", "u", "n", "d">>)
    \o <<"\n", "\n", "E", "x", "i", "s", "t", "i", "n", "g", " ", "R", "E", "A", "D", "M",
            "E", " ", "C", "o", "n", "t", "e", "n", "t", ":", "\n">>
    \o ReadmeBlock(info.readme)
    \o <<"\n">>

\* the info record after the two API calls
\* [src/tools.py:57-102 fetch_comprehensive_repo_info]
RepoCalls(url, owner, repo_name, world) ==
    AfterLanguagesCall(
        AfterApiCall(InitialInfo(url, owner, repo_name),
                     IF world.repo = <<owner, repo_name>> THEN world.api ELSE HttpError),
        IF world.repo = <<owner, repo_name>> THEN world.lang ELSE HttpError)

\* the info record with what the two probes rd and pk found, and the requests issued
\* [src/tools.py:104-149 fetch_comprehensive_repo_info]
WithProbes(info, rd, pk) ==
    [info |-> [info EXCEPT !.readme = rd.readme, !.package_info = pk.package_info],
     log  |-> <<<<"api", info.owner, info.repo_name>>,
                <<"languages", info.owner, info.repo_name>>>> \o rd.log \o pk.log]

\* [src/tools.py:104-149 fetch_comprehensive_repo_info]
ProbeRepo(world, info) ==
    WithProbes(info, ReadmeProbe(world, info, 1, info.readme),
               PackageProbe(world, info, 1, info.package_info))

\* [src/tools.py:54-72 fetch_comprehensive_repo_info]
GatherFor(url, parts, world) ==
    ProbeRepo(world, RepoCalls(url, parts[Len(parts) - 1], parts[Len(parts)], world))

\* the info record after every network call, and the requests issued
\* [src/tools.py:47-149 fetch_comprehensive_repo_info]
GatherRepoInfo(github_url, world) ==
    GatherFor(StripTrailingSlash(github_url), Split(StripTrailingSlash(github_url), "/"), world)

\* [src/tools.py:152-174 fetch_comprehensive_repo_info]
Formatted(g) == [raised |-> "", value |-> FormatRepoInfo(g.info), log |-> g.log]

\* the call's outcome: [raised, value, log]
\* [src/tools.py:35-174 fetch_comprehensive_repo_info]
FetchComprehensiveRepoInfo(github_url, world) ==
    IF Len(Split(StripTrailingSlash(github_url), "/")) < 5
    THEN [raised |-> "", value |-> InvalidUrlMessage, log |-> << >>]
    ELSE Formatted(GatherRepoInfo(github_url, world))

(***************************************************************************)
(* analyze_code_content                                                    *)
(***************************************************************************)

\* [src/tools.py:219-220 analyze_code_content]
PriorityNames == {<<"m", "a", "i", "n", ".", "p", "y">>, <<"a", "p", "p", ".", "p", "y">>, <<"i", "n", "d", "e", "x", ".", "j", "s">>, <<"m", "a", "i", "n", ".", "j", "s">>, <<"s", "e", "r", "v", "e", "r", ".", "j", "s">>, <<"i", "n", "d", "e", "x", ".", "t", "s">>,
                  <<"m", "a", "i", "n", ".", "r", "s">>, <<"l", "i", "b", ".", "r", "s">>, <<"m", "a", "i", "n", ".", "g", "o">>, <<"m", "a", "i", "n", ".", "c", "p", "p">>, <<"m", "a", "i", "n", ".", "c">>, <<"a", "p", "p", ".", "j", "s">>}

\* [src/tools.py:222-222 analyze_code_content]
SourceExtensions == {<<".", "p", "y">>, <<".", "j", "s">>, <<".", "t", "s">>, <<".", "r", "s">>, <<".", "g", "o">>, <<".", "j", "a", "v", "a">>, <<".", "c", "p", "p">>, <<".", "c">>}

RECURSIVE KeyFilesInListingOrder(_, _, _)
\* KeyFiles with the entry points appended like the rest: what C14 must tell from it
KeyFilesInListingOrder(contents, k, key_files) ==
    IF k > Len(contents) THEN key_files
    ELSE IF /\ contents[k].type = "file"
            /\ \/ Lower(contents[k].name) \in PriorityNames
               \/ \E x \in SourceExtensions : EndsWith(Lower(contents[k].name), x)
    THEN KeyFilesInListingOrder(contents, k + 1, Append(key_files, contents[k]))
    ELSE KeyFilesInListingOrder(contents, k + 1, key_files)

RECURSIVE KeyFiles(_, _, _)
\* the loop that builds key_files from the listing, from entry k
\* [src/tools.py:214-223 analyze_code_content]
KeyFiles(contents, k, key_files) ==
    IF k > Len(contents) THEN key_files
    ELSE LET item == contents[k]
             name == Lower(item.name)
         IN IF item.type # "file" THEN KeyFiles(contents, k + 1, key_files)
            ELSE IF name \in PriorityNames
            THEN KeyFiles(contents, k + 1, <<item>> \o key_files)
            ELSE IF \E x \in SourceExtensions : EndsWith(name, x)
            THEN KeyFiles(contents, k + 1, Append(key_files, item))
            ELSE KeyFiles(contents, k + 1, key_files)

\* [src/tools.py:226-226 analyze_code_content]
MaxAnalyzed == 5

\* [src/tools.py:236-236 analyze_code_content]
ContentLimit == 5000

\* the content request for one candidate: "main", then "master" if that is not a 200;
\* a request that raises leaves the candidate to the except clause
\* [src/tools.py:229-235 analyze_code_content]
FetchContent(world, owner, repo_name, name) ==
    LET first == RawResponse(world, owner, repo_name, <<"m", "a", "i", "n">>, name)
        second == RawResponse(world, owner, repo_name, <<"m", "a", "s", "t", "e", "r">>, name)
    IN IF first.status = "exception"
       THEN [status |-> "exception", text |-> << >>, log |-> <<RawRequest(<<"m", "a", "i", "n">>, name)>>]
       ELSE IF first.status = "ok"
       THEN [status |-> "ok", text |-> first.text, log |-> <<RawRequest(<<"m", "a", "i", "n">>, name)>>]
       ELSE [status |-> second.status, text |-> second.text,
             log |-> <<RawRequest(<<"m", "a", "i", "n">>, name), RawRequest(<<"m", "a", "s", "t", "e", "r">>, name)>>]

\* analysis.update(result): every key of the detector's result replaces the
\* report's value for that key
\* [src/tools.py:240-243 dict.update]
MergeAnalysis(analysis, result) ==
    [f \in DOMAIN analysis |-> IF f \in DOMAIN result THEN result[f] ELSE analysis[f]]

\* the detector an analysed file is given to, "" for none
\* [src/tools.py:239-243 analyze_code_content]
DetectorFor(name) ==
    IF EndsWith(name, <<".", "p", "y">>) THEN "python"
    ELSE IF EndsWith(name, <<".", "j", "s">>) \/ EndsWith(name, <<".", "t", "s">>) THEN "js"
    ELSE ""

\* [src/tools.py:239-243 analyze_code_content]
Detect(content, name) ==
    IF DetectorFor(name) = "python" THEN AnalyzePythonCode(content, name)
    ELSE AnalyzeJsCode(content, name)

RECURSIVE AnalyzeFiles(_, _, _, _, _, _)
\* the loop over key_files[:5], from candidate k: the report, the detector results
\* merged into it in order, and the requests issued
\* [src/tools.py:226-247 analyze_code_content]
AnalyzeFiles(world, owner, repo_name, files, k, acc) ==
    IF k > Len(files) THEN acc
    ELSE CHOOSE r \in
           { AnalyzeFiles(world, owner, repo_name, files, k + 1,
                 IF got.status = "ok" /\ DetectorFor(name) # ""
                 THEN CHOOSE m \in
                        { [analysis |-> MergeAnalysis(acc.analysis, result),
                           perfile  |-> Append(acc.perfile, result),
                           log      |-> acc.log \o got.log] :
                            result \in {Detect(content, name) :
                                           content \in {Take(got.text, ContentLimit)}} } : TRUE
                 ELSE [acc EXCEPT !.log = acc.log \o got.log]) :
               name \in {files[k].name},
               got \in {FetchContent(world, owner, repo_name, files[k].name)} } : TRUE

\* chr(10).join(f"- {x}" for x in items)
\* [src/tools.py:256-256 analyze_code_content]
Bullets(items) == Join(<<"\n">>, [i \in 1..Len(items) |-> <<"-", " ">> \o items[i]])

\* the elements of a sequence, as a set
\* [src/tools.py:274-274 set]
Range(q) == {q[i] : i \in 1..Len(q)}

\* list(set(imports)): the distinct imports in an order the build fixes (string
\* hashing is seeded per process), so every order is one the program can produce
\* [src/tools.py:274-274 analyze_code_content]
SetOrders(q) ==
    {p \in [1..Cardinality(Range(q)) -> Range(q)] : \A x \in Range(q) : \E i \in DOMAIN p : p[i] = x}

\* [src/tools.py:259-259 analyze_code_content]
RenderClasses(key_classes) == Bullets(Take(key_classes, 10))

\* [src/tools.py:262-262 analyze_code_content]
RenderFunctions(key_functions) == Bullets(Take(key_functions, 10))

\* [src/tools.py:253-275 analyze_code_content]
FormatAnalysis(analysis, import_order) ==
    <<"C", "o", "d", "e", " ", "A", "n", "a", "l", "y", "s", "i", "s", " ", "R", "e",
            "s", "u", "l", "t", "s", ":", "\n", "\n", "M", "a", "i", "n", " ", "F", "u", "n",
            "c", "t", "i", "o", "n", "a", "l", "i", "t", "y", " ", "D", "e", "t", "e", "c",
            "t", "e", "d", ":", "\n">>
    \o Bullets(Take(analysis.main_functionality, 10))
    \o <<"\n", "\n", "K", "e", "y", " ", "C", "l", "a", "s", "s", "e", "s", "/", "C", "o",
            "m", "p", "o", "n", "e", "n", "t", "s", ":", "\n">> \o RenderClasses(analysis.key_classes)
    \o <<"\n", "\n", "K", "e", "y", " ", "F", "u", "n", "c", "t", "i", "o", "n", "s", "/",
            "M", "e", "t", "h", "o", "d", "s", ":", "\n">> \o RenderFunctions(analysis.key_functions)
    \o <<"\n", "\n", "E", "n", "t", "r", "y", " ", "P", "o", "i", "n", "t", "s", ":", "\n">> \o Bullets(Take(analysis.entry_points, 5))
    \o <<"\n", "\n", "A", "P", "I", " ", "E", "n", "d", "p", "o", "i", "n", "t", "s", " ",
            "D", "e", "t", "e", "c", "t", "e", "d", ":", "\n">> \o Bullets(Take(analysis.apis_endpoints, 10))
    \o <<"\n", "\n", "C", "L", "I", " ", "C", "o", "m", "m", "a", "n", "d", "s", ":", "\n">> \o Bullets(Take(analysis.cli_commands, 5))
    \o <<"\n", "\n", "C", "o", "m", "m", "o", "n", " ", "I", "m", "p", "o", "r", "t", "s",
            "/", "D", "e", "p", "e", "n", "d", "e", "n", "c", "i", "e", "s", ":", "\n">> \o Bullets(Take(import_order, 15))
    \o <<"\n">>

\* [src/tools.py:193-202 analyze_code_content]
InitialAnalysis == [main_functionality |-> << >>, key_classes |-> << >>,
                    key_functions |-> << >>, imports |-> << >>, project_structure |-> << >>,
                    entry_points |-> << >>, apis_endpoints |-> << >>, cli_commands |-> << >>]

\* [src/tools.py:209-209 analyze_code_content]
NoAccessMessage == <<"C", "o", "u", "l", "d", " ", "n", "o", "t", " ", "a", "c", "c", "e", "s", "s",
        " ", "r", "e", "p", "o", "s", "i", "t", "o", "r", "y", " ", "c", "o", "n", "t",
        "e", "n", "t", "s">>

\* [src/tools.py:250-250 analyze_code_content]
AnalysisFailedPrefix == <<"C", "o", "u", "l", "d", " ", "n", "o", "t", " ", "a", "n", "a", "l", "y", "z",
        "e", " ", "c", "o", "d", "e", " ", "c", "o", "n", "t", "e", "n", "t", ":", " ">>

\* parts[-2] of a one-element list
\* [src/tools.py:190-190 analyze_code_content]
IndexError == "IndexError"

\* the call once owner and repository are known
\* [src/tools.py:204-250 analyze_code_content]
AnalyzeRepository(owner, repo_name, world) ==
    LET listing == IF world.repo = <<owner, repo_name>> THEN world.contents ELSE HttpError
        req == <<<<"contents", owner, repo_name>>>>
        none == [raised |-> "", value |-> << >>, done |-> TRUE, analysis |-> InitialAnalysis,
                 perfile |-> << >>, key_files |-> << >>, log |-> req]
    IN IF listing.status = "exception"
       THEN [none EXCEPT !.value = AnalysisFailedPrefix \o listing.text]
       ELSE IF listing.status # "ok"
       THEN [none EXCEPT !.value = NoAccessMessage]
       ELSE CHOOSE r \in
              { [raised |-> "", value |-> << >>, done |-> FALSE,
                 analysis |-> a.analysis, perfile |-> a.perfile,
                 key_files |-> key_files, log |-> req \o a.log] :
                  key_files \in {KeyFiles(listing.items, 1, << >>)},
                  a \in {AnalyzeFiles(world, owner, repo_name,
                                      Take(KeyFiles(listing.items, 1, << >>), MaxAnalyzed), 1,
                                      [analysis |-> InitialAnalysis, perfile |-> << >>,
                                       log |-> << >>])} } : TRUE

\* the call's outcome short of the final rendering: [raised, value, done, analysis,
\* perfile, key_files, log]; done says the call returned before the rendering
\* [src/tools.py:189-250 analyze_code_content]
AnalyzeCodeGather(github_url, world) ==
    CHOOSE r \in
      { IF Len(parts) < 2
        THEN [raised |-> IndexError, value |-> << >>, done |-> TRUE,
              analysis |-> InitialAnalysis, perfile |-> << >>, key_files |-> << >>,
              log |-> << >>]
        ELSE AnalyzeRepository(parts[Len(parts) - 1], parts[Len(parts)], world) :
          parts \in {Split(github_url, "/")} } : TRUE

(***************************************************************************)
(* extract_project_features                                                *)
(***************************************************************************)

\* [src/tools.py:426-426 extract_project_features]
FlaskRule(info_lines, code_lines) ==
    Contains(info_lines, <<"f", "l", "a", "s", "k">>) \/ Contains(code_lines, <<"f", "l", "a", "s", "k">>)

\* [src/tools.py:431-431 extract_project_features]
FastApiRule(info_lines, code_lines) ==
    Contains(info_lines, <<"f", "a", "s", "t", "a", "p", "i">>) \/ Contains(code_lines, <<"f", "a", "s", "t", "a", "p", "i">>)

\* [src/tools.py:437-437 extract_project_features]
ReactRule(info_lines, code_lines) ==
    Contains(info_lines, <<"r", "e", "a", "c", "t">>) \/ Contains(code_lines, <<"r", "e", "a", "c", "t">>)

\* [src/tools.py:443-443 extract_project_features]
MlMarkers == {<<"m", "a", "c", "h", "i", "n", "e", " ", "l", "e", "a", "r", "n", "i", "n", "g">>, <<"p", "a", "n", "d", "a", "s">>, <<"n", "u", "m", "p", "y">>, <<"s", "k", "l", "e", "a", "r", "n">>, <<"t", "e", "n", "s", "o", "r", "f", "l", "o", "w">>, <<"p", "y", "t", "o", "r", "c", "h">>}

\* [src/tools.py:443-443 extract_project_features]
MlRule(info_lines, code_lines) == \E m \in MlMarkers : Contains(info_lines, m)

\* [src/tools.py:449-449 extract_project_features]
DatabaseMarkers == {<<"d", "a", "t", "a", "b", "a", "s", "e">>, <<"s", "q", "l", "i", "t", "e">>, <<"p", "o", "s", "t", "g", "r", "e", "s", "q", "l">>, <<"m", "y", "s", "q", "l">>, <<"m", "o", "n", "g", "o", "d", "b">>}

\* [src/tools.py:449-449 extract_project_features]
DatabaseRule(info_lines, code_lines) == \E m \in DatabaseMarkers : Contains(info_lines, m)

\* [src/tools.py:453-453 extract_project_features]
DockerRule(info_lines, code_lines) == Contains(info_lines, <<"d", "o", "c", "k", "e", "r">>)

\* [src/tools.py:458-458 extract_project_features]
ApiMarkers == {<<"a", "p", "i">>, <<"r", "e", "s", "t">>}

\* [src/tools.py:458-458 extract_project_features]
ApiRule(info_lines, code_lines) == \E m \in ApiMarkers : Contains(info_lines, m)

\* [src/tools.py:427-428 extract_project_features]
FlaskFeatures == <<<<"R", "E", "S", "T", "f", "u", "l", " ", "A", "P", "I", " ", "e", "n", "d", "p",
        "o", "i", "n", "t", "s">>, <<"W", "e", "b", "-", "b", "a", "s", "e", "d", " ", "u", "s", "e", "r", " ", "i",
        "n", "t", "e", "r", "f", "a", "c", "e">>>>

\* [src/tools.py:432-434 extract_project_features]
FastApiFeatures == <<<<"H", "i", "g", "h", "-", "p", "e", "r", "f", "o", "r", "m", "a", "n", "c", "e",
        " ", "a", "s", "y", "n", "c", " ", "A", "P", "I">>,
                     <<"A", "u", "t", "o", "m", "a", "t", "i", "c", " ", "A", "P", "I", " ", "d", "o",
                             "c", "u", "m", "e", "n", "t", "a", "t", "i", "o", "n", " ", "(", "O", "p", "e",
                             "n", "A", "P", "I", "/", "S", "w", "a", "g", "g", "e", "r", ")">>,
                     <<"T", "y", "p", "e", " ", "h", "i", "n", "t", "s", " ", "a", "n", "d", " ", "v",
                             "a", "l", "i", "d", "a", "t", "i", "o", "n">>>>

\* [src/tools.py:438-440 extract_project_features]
ReactFeatures == <<<<"I", "n", "t", "e", "r", "a", "c", "t", "i", "v", "e", " ", "u", "s", "e", "r",
        " ", "i", "n", "t", "e", "r", "f", "a", "c", "e">>, <<"C", "o", "m", "p", "o", "n", "e", "n", "t", "-", "b", "a", "s", "e", "d", " ",
        "a", "r", "c", "h", "i", "t", "e", "c", "t", "u", "r", "e">>,
                   <<"S", "i", "n", "g", "l", "e", "-", "p", "a", "g", "e", " ", "a", "p", "p", "l",
                           "i", "c", "a", "t", "i", "o", "n", " ", "(", "S", "P", "A", ")">>>>

\* [src/tools.py:444-446 extract_project_features]
MlFeatures == <<<<"D", "a", "t", "a", " ", "p", "r", "e", "p", "r", "o", "c", "e", "s", "s", "i",
        "n", "g", " ", "a", "n", "d", " ", "a", "n", "a", "l", "y", "s", "i", "s">>, <<"M", "a", "c", "h", "i", "n", "e", " ", "l", "e", "a", "r", "n", "i", "n", "g",
        " ", "m", "o", "d", "e", "l", " ", "t", "r", "a", "i", "n", "i", "n", "g">>,
                <<"P", "r", "e", "d", "i", "c", "t", "i", "v", "e", " ", "a", "n", "a", "l", "y",
                        "t", "i", "c", "s">>>>

\* [src/tools.py:450-451 extract_project_features]
DatabaseFeatures == <<<<"D", "a", "t", "a", " ", "p", "e", "r", "s", "i", "s", "t", "e", "n", "c", "e",
        " ", "a", "n", "d", " ", "s", "t", "o", "r", "a", "g", "e">>, <<"D", "a", "t", "a", "b", "a", "s", "e", " ", "o", "p", "e", "r", "a", "t", "i",
        "o", "n", "s", " ", "(", "C", "R", "U", "D", ")">>>>

\* [src/tools.py:454-455 extract_project_features]
DockerFeatures == <<<<"C", "o", "n", "t", "a", "i", "n", "e", "r", "i", "z", "e", "d", " ", "d", "e",
        "p", "l", "o", "y", "m", "e", "n", "t">>, <<"E", "n", "v", "i", "r", "o", "n", "m", "e", "n", "t", " ", "c", "o", "n", "s",
        "i", "s", "t", "e", "n", "c", "y">>>>

\* [src/tools.py:459-460 extract_project_features]
ApiFeatures == <<<<"A", "P", "I", " ", "i", "n", "t", "e", "g", "r", "a", "t", "i", "o", "n", " ",
        "c", "a", "p", "a", "b", "i", "l", "i", "t", "i", "e", "s">>, <<"H", "T", "T", "P", " ", "r", "e", "q", "u", "e", "s", "t", " ", "h", "a", "n",
        "d", "l", "i", "n", "g">>>>

\* [src/tools.py:466-466 extract_project_features]
EndpointSummaryPrefix == <<"A", "P", "I", " ", "e", "n", "d", "p", "o", "i", "n", "t", "s", ":", " ">>

\* the summary feature of the endpoints findall reported, if any
\* [src/tools.py:465-466 extract_project_features]
SummaryOf(endpoints) ==
    IF endpoints # << >>
    THEN <<EndpointSummaryPrefix \o Join(<<",", " ">>, Take(endpoints, 3))>>
    ELSE << >>

\* [src/tools.py:463-466 extract_project_features]
EndpointSummary(code_analysis) ==
    IF Contains(Lower(code_analysis), <<"a", "p", "i", " ", "e", "n", "d", "p", "o", "i", "n", "t", "s", " ", "d", "e",
            "t", "e", "c", "t", "e", "d">>)
    THEN SummaryOf(FindAll([k \in 1..Len(code_analysis) |-> MatchEndpointLine(code_analysis, k)]))
    ELSE << >>

\* CliRule asking for a listed command under the heading: what C16 must tell from it
CliRuleOnCommands(code_lines) == Contains(code_lines, <<"c", "l", "i", " ", "c", "o", "m", "m", "a", "n", "d", "s", ":", "\n", "-", " ">>)

\* [src/tools.py:468-468 extract_project_features]
CliRule(code_lines) == Contains(code_lines, <<"c", "l", "i", " ", "c", "o", "m", "m", "a", "n", "d", "s">>)

\* the three lists after every rule has run
\* [src/tools.py:417-470 extract_project_features]
ExtractLists(repo_info, code_analysis) ==
    LET info_lines == Lower(repo_info)
        code_lines == Lower(code_analysis)
        flask   == FlaskRule(info_lines, code_lines)
        fastapi == FastApiRule(info_lines, code_lines)
        react   == ReactRule(info_lines, code_lines)
        ml      == MlRule(info_lines, code_lines)
        docker  == DockerRule(info_lines, code_lines)
        cli     == CliRule(code_lines)
    IN [features |->
            (IF flask THEN FlaskFeatures ELSE << >>)
            \o (IF fastapi THEN FastApiFeatures ELSE << >>)
            \o (IF react THEN ReactFeatures ELSE << >>)
            \o (IF ml THEN MlFeatures ELSE << >>)
            \o (IF DatabaseRule(info_lines, code_lines) THEN DatabaseFeatures ELSE << >>)
            \o (IF docker THEN DockerFeatures ELSE << >>)
            \o (IF ApiRule(info_lines, code_lines) THEN ApiFeatures ELSE << >>)
            \o EndpointSummary(code_analysis)
            \o (IF cli THEN <<<<"C", "o", "m", "m", "a", "n", "d", "-", "l", "i", "n", "e", " ", "i", "n", "t",
                    "e", "r", "f", "a", "c", "e">>>> ELSE << >>),
        technologies |->
            (IF flask THEN <<<<"F", "l", "a", "s", "k", " ", "w", "e", "b", " ", "f", "r", "a", "m", "e", "w",
                    "o", "r", "k">>>> ELSE << >>)
            \o (IF fastapi THEN <<<<"F", "a", "s", "t", "A", "P", "I", " ", "f", "r", "a", "m", "e", "w", "o", "r",
                    "k">>>> ELSE << >>)
            \o (IF react THEN <<<<"R", "e", "a", "c", "t", ".", "j", "s">>>> ELSE << >>)
            \o (IF docker THEN <<<<"D", "o", "c", "k", "e", "r">>>> ELSE << >>),
        use_cases |->
            (IF ml THEN <<<<"D", "a", "t", "a", " ", "s", "c", "i", "e", "n", "c", "e", " ", "a", "n", "d",
                    " ", "a", "n", "a", "l", "y", "t", "i", "c", "s">>>> ELSE << >>)
            \o (IF cli THEN <<<<"C", "o", "m", "m", "a", "n", "d", "-", "l", "i", "n", "e", " ", "t", "o", "o",
                    "l">>>> ELSE << >>)]

\* RenderKeyFeatures without the cap: what C7 must tell from it
RenderKeyFeaturesUncapped(features) == Bullets(features)

\* [src/tools.py:476-476 extract_project_features]
RenderKeyFeatures(features) == Bullets(Take(features, 8))

\* [src/tools.py:473-488 extract_project_features]
FormatFeatures(l) ==
    <<"E", "x", "t", "r", "a", "c", "t", "e", "d", " ", "P", "r", "o", "j", "e", "c",
            "t", " ", "F", "e", "a", "t", "u", "r", "e", "s", ":", "\n", "\n", "K", "e", "y",
            " ", "F", "e", "a", "t", "u", "r", "e", "s", ":", "\n">> \o RenderKeyFeatures(l.features)
    \o <<"\n", "\n", "T", "e", "c", "h", "n", "o", "l", "o", "g", "i", "e", "s", " ", "U",
            "s", "e", "d", ":", "\n">> \o Bullets(Take(l.technologies, 6))
    \o <<"\n", "\n", "P", "r", "i", "m", "a", "r", "y", " ", "U", "s", "e", " ", "C", "a",
            "s", "e", "s", ":", "\n">> \o Bullets(Take(l.use_cases, 4))
    \o <<"\n", "\n", "D", "e", "t", "e", "c", "t", "e", "d", " ", "C", "a", "p", "a", "b",
            "i", "l", "i", "t", "i", "e", "s", ":", "\n", "-", " ">> \o IntToStr(Len(l.features))
    \o <<" ", "s", "p", "e", "c", "i", "f", "i", "c", " ", "f", "e", "a", "t", "u", "r",
            "e", "s", " ", "i", "d", "e", "n", "t", "i", "f", "i", "e", "d", "\n", "-", " ">> \o IntToStr(Len(l.technologies))
    \o <<" ", "t", "e", "c", "h", "n", "o", "l", "o", "g", "i", "e", "s", " ", "d", "e",
            "t", "e", "c", "t", "e", "d", "\n", "-", " ">> \o IntToStr(Len(l.use_cases))
    \o <<" ", "u", "s", "e", " ", "c", "a", "s", "e", "s", " ", "i", "d", "e", "n", "t",
            "i", "f", "i", "e", "d", "\n">>

\* [src/tools.py:405-490 extract_project_features]
ExtractProjectFeatures(repo_info, code_analysis) ==
    FormatFeatures(ExtractLists(repo_info, code_analysis))

(***************************************************************************)
(* generate_smart_readme                                                   *)
(***************************************************************************)

\* the header field of a prefix: the stripped rest of the last line that starts
\* with it, "" when no line does
\* [src/tools.py:516-530 generate_smart_readme]
HeaderField(lines, prefix) ==
    LET hits == {i \in 1..Len(lines) : StartsWith(lines[i], prefix)}
    IN IF hits = {} THEN << >>
       ELSE Strip(AfterFirst(lines[CHOOSE i \in hits : \A j \in hits : j <= i], ":"))

\* [src/tools.py:533-541 generate_smart_readme]
ProjectType(repo_info) ==
    LET text == Lower(repo_info)
    IN IF Contains(text, <<"p", "y", "t", "h", "o", "n">>) THEN <<"P", "y", "t", "h", "o", "n", " ", "A", "p", "p", "l", "i", "c", "a", "t", "i",
            "o", "n">>
       ELSE IF Contains(text, <<"j", "a", "v", "a", "s", "c", "r", "i", "p", "t">>) \/ Contains(text, <<"n", "o", "d", "e">>)
       THEN <<"J", "a", "v", "a", "S", "c", "r", "i", "p", "t", "/", "N", "o", "d", "e", ".",
               "j", "s", " ", "A", "p", "p", "l", "i", "c", "a", "t", "i", "o", "n">>
       ELSE IF Contains(text, <<"r", "u", "s", "t">>) THEN <<"R", "u", "s", "t", " ", "A", "p", "p", "l", "i", "c", "a", "t", "i", "o", "n">>
       ELSE IF Contains(text, <<"g", "o">>) THEN <<"G", "o", " ", "A", "p", "p", "l", "i", "c", "a", "t", "i", "o", "n">>
       ELSE <<"S", "o", "f", "t", "w", "a", "r", "e", " ", "P", "r", "o", "j", "e", "c", "t">>

\* [src/tools.py:544-548 generate_smart_readme]
TitleBlock(repo_name, description, project_type) ==
    <<"#", " ">> \o repo_name \o <<"\n", "\n">>
    \o (IF description # << >> /\ description # <<"N", "o", "n", "e">> THEN description
        ELSE <<"A", " ">> \o Lower(project_type) \o <<" ", "b", "u", "i", "l", "t", " ", "w", "i", "t", "h", " ", "m", "o", "d", "e",
                "r", "n", " ", "t", "e", "c", "h", "n", "o", "l", "o", "g", "i", "e", "s", ".">>)
    \o <<"\n", "\n">>

\* Present without the test for the literal None: what C8 must tell from it
PresentUnlessEmpty(value) == value # << >>

\* whether an optional header value counts as present
\* [src/tools.py:551-551 generate_smart_readme]
Present(value) == value # << >> /\ value # <<"N", "o", "n", "e">>

\* [src/tools.py:551-552 generate_smart_readme]
TopicsBlock(topics) ==
    IF Present(topics) THEN <<"*", "*", "T", "o", "p", "i", "c", "s", ":", "*", "*", " ">> \o topics \o <<"\n", "\n">> ELSE << >>

\* [src/tools.py:554-555 generate_smart_readme]
HomepageBlock(homepage) ==
    IF Present(homepage)
    THEN <<"U+1F310", " ", "*", "*", "L", "i", "v", "e", " ", "D", "e", "m", "o", ":", "*", "*",
            " ", "[">> \o homepage \o <<"]", "(">> \o homepage \o <<")", "\n", "\n">>
    ELSE << >>

\* the bulleted lines of a report that pass a test, without their "- "
\* [src/tools.py:561-564 generate_smart_readme]
MainFuncs(code_analysis) ==
    LET lines == Split(code_analysis, "\n")
        kept  == SelectSeq(lines, LAMBDA l : /\ StartsWith(l, <<"-", " ">>)
                                            /\ \/ Contains(Lower(l), <<"f", "u", "n", "c", "t", "i", "o", "n", "a", "l", "i", "t", "y">>)
                                               \/ Contains(Lower(l), <<"a", "p", "p", "l", "i", "c", "a", "t", "i", "o", "n">>))
    IN [i \in 1..Len(kept) |-> Drop(kept[i], 2)]

\* "- x\n" for every item
\* [src/tools.py:568-569 generate_smart_readme]
BulletLines(items) == IF Len(items) = 0 THEN << >>
                      ELSE Join(<< >>, [i \in 1..Len(items) |-> <<"-", " ">> \o items[i] \o <<"\n">>])

\* [src/tools.py:558-570 generate_smart_readme]
OverviewSection(code_analysis, project_type) ==
    <<"#", "#", " ", "O", "v", "e", "r", "v", "i", "e", "w", "\n", "\n">>
    \o (IF MainFuncs(code_analysis) # << >>
        THEN <<"T", "h", "i", "s", " ">> \o Lower(project_type) \o <<" ", "p", "r", "o", "v", "i", "d", "e", "s", ":", "\n", "\n">>
             \o BulletLines(Take(MainFuncs(code_analysis), 3)) \o <<"\n">>
        ELSE << >>)

\* [src/tools.py:573-576 generate_smart_readme]
FeatureLines(features) ==
    LET lines == Split(features, "\n")
        kept  == SelectSeq(lines, LAMBDA l : StartsWith(l, <<"-", " ">>) /\ Strip(Drop(l, 2)) # << >>)
    IN [i \in 1..Len(kept) |-> Strip(Drop(kept[i], 2))]

\* [src/tools.py:578-582 generate_smart_readme]
FeaturesSection(feature_lines) ==
    IF feature_lines # << >>
    THEN <<"#", "#", " ", "F", "e", "a", "t", "u", "r", "e", "s", "\n", "\n">> \o BulletLines(Take(feature_lines, 8)) \o <<"\n">>
    ELSE << >>

\* [src/tools.py:585-589 generate_smart_readme]
ApiEndpointLines(code_analysis) ==
    LET lines == Split(code_analysis, "\n")
        kept  == SelectSeq(lines, LAMBDA l : /\ \E k \in 1..4 : Contains(l, HttpVerbs[k])
                                            /\ StartsWith(l, <<"-", " ">>))
    IN [i \in 1..Len(kept) |-> Drop(kept[i], 2)]

\* [src/tools.py:591-595 generate_smart_readme]
ApiEndpointsSection(api_endpoints) ==
    IF api_endpoints # << >>
    THEN <<"#", "#", " ", "A", "P", "I", " ", "E", "n", "d", "p", "o", "i", "n", "t", "s",
            "\n", "\n">> \o BulletLines(Take(api_endpoints, 6)) \o <<"\n">>
    ELSE << >>

\* [src/tools.py:601-618 generate_smart_readme]
PythonSetup(url, repo_name) ==
    <<"#", "#", "#", " ", "P", "r", "e", "r", "e", "q", "u", "i", "s", "i", "t", "e",
            "s", "\n", "-", " ", "P", "y", "t", "h", "o", "n", " ", "3", ".", "7", " ", "o",
            "r", " ", "h", "i", "g", "h", "e", "r", "\n", "-", " ", "p", "i", "p", " ", "p",
            "a", "c", "k", "a", "g", "e", " ", "m", "a", "n", "a", "g", "e", "r", "\n", "\n",
            "#", "#", "#", " ", "S", "e", "t", "u", "p", "\n", "U+0060", "U+0060", "U+0060", "b", "a", "s",
            "h", "\n", "#", " ", "C", "l", "o", "n", "e", " ", "t", "h", "e", " ", "r", "e",
            "p", "o", "s", "i", "t", "o", "r", "y", "\n", "g", "i", "t", " ", "c", "l", "o",
            "n", "e", " ">>
    \o url \o <<"\n", "c", "d", " ">> \o repo_name
    \o <<"\n", "\n", "#", " ", "I", "n", "s", "t", "a", "l", "l", " ", "d", "e", "p", "e",
            "n", "d", "e", "n", "c", "i", "e", "s", "\n", "p", "i", "p", " ", "i", "n", "s",
            "t", "a", "l", "l", " ", "-", "r", " ", "r", "e", "q", "u", "i", "r", "e", "m",
            "e", "n", "t", "s", ".", "t", "x", "t", "\n", "\n", "#", " ", "O", "r", " ", "i",
            "f", " ", "u", "s", "i", "n", "g", " ", "p", "o", "e", "t", "r", "y", "\n", "p",
            "o", "e", "t", "r", "y", " ", "i", "n", "s", "t", "a", "l", "l", "\n", "U+0060", "U+0060",
            "U+0060", "\n", "\n">>

\* [src/tools.py:620-628 generate_smart_readme]
RunningTheApplication ==
    <<"#", "#", "#", " ", "R", "u", "n", "n", "i", "n", "g", " ", "t", "h", "e", " ",
            "A", "p", "p", "l", "i", "c", "a", "t", "i", "o", "n", "\n", "U+0060", "U+0060", "U+0060", "b",
            "a", "s", "h", "\n", "#", " ", "S", "t", "a", "r", "t", " ", "t", "h", "e", " ",
            "s", "e", "r", "v", "e", "r", "\n", "p", "y", "t", "h", "o", "n", " ", "a", "p",
            "p", ".", "p", "y", "\n", "#", " ", "o", "r", "\n", "u", "v", "i", "c", "o", "r",
            "n", " ", "m", "a", "i", "n", ":", "a", "p", "p", " ", "-", "-", "r", "e", "l",
            "o", "a", "d", " ", " ", "#", " ", "f", "o", "r", " ", "F", "a", "s", "t", "A",
            "P", "I", "\n", "U+0060", "U+0060", "U+0060", "\n", "\n">>

\* whether the server-start subsection follows the Python setup
\* [src/tools.py:619-619 generate_smart_readme]
WebFrameworkMarked(repo_info, code_analysis) ==
    Contains(Lower(repo_info), <<"f", "l", "a", "s", "k">>) \/ Contains(Lower(repo_info), <<"f", "a", "s", "t", "a", "p", "i">>)

\* [src/tools.py:630-651 generate_smart_readme]
NodeSetup(url, repo_name) ==
    <<"#", "#", "#", " ", "P", "r", "e", "r", "e", "q", "u", "i", "s", "i", "t", "e",
            "s", "\n", "-", " ", "N", "o", "d", "e", ".", "j", "s", " ", "1", "4", " ", "o",
            "r", " ", "h", "i", "g", "h", "e", "r", "\n", "-", " ", "n", "p", "m", " ", "o",
            "r", " ", "y", "a", "r", "n", "\n", "\n", "#", "#", "#", " ", "S", "e", "t", "u",
            "p", "\n", "U+0060", "U+0060", "U+0060", "b", "a", "s", "h", "\n", "#", " ", "C", "l", "o", "n",
            "e", " ", "t", "h", "e", " ", "r", "e", "p", "o", "s", "i", "t", "o", "r", "y",
            "\n", "g", "i", "t", " ", "c", "l", "o", "n", "e", " ">>
    \o url \o <<"\n", "c", "d", " ">> \o repo_name
    \o <<"\n", "\n", "#", " ", "I", "n", "s", "t", "a", "l", "l", " ", "d", "e", "p", "e",
            "n", "d", "e", "n", "c", "i", "e", "s", "\n", "n", "p", "m", " ", "i", "n", "s",
            "t", "a", "l", "l", "\n", "#", " ", "o", "r", "\n", "y", "a", "r", "n", " ", "i",
            "n", "s", "t", "a", "l", "l", "\n", "\n", "#", " ", "S", "t", "a", "r", "t", " ",
            "t", "h", "e", " ", "a", "p", "p", "l", "i", "c", "a", "t", "i", "o", "n", "\n",
            "n", "p", "m", " ", "s", "t", "a", "r", "t", "\n", "#", " ", "o", "r", "\n", "y",
            "a", "r", "n", " ", "s", "t", "a", "r", "t", "\n", "U+0060", "U+0060", "U+0060", "\n", "\n">>

\* [src/tools.py:653-661 generate_smart_readme]
GenericSetup(url, repo_name) ==
    <<"U+0060", "U+0060", "U+0060", "b", "a", "s", "h", "\n", "#", " ", "C", "l", "o", "n", "e", " ",
            "t", "h", "e", " ", "r", "e", "p", "o", "s", "i", "t", "o", "r", "y", "\n", "g",
            "i", "t", " ", "c", "l", "o", "n", "e", " ">> \o url \o <<"\n", "c", "d", " ">> \o repo_name
    \o <<"\n", "\n", "#", " ", "F", "o", "l", "l", "o", "w", " ", "p", "r", "o", "j", "e",
            "c", "t", "-", "s", "p", "e", "c", "i", "f", "i", "c", " ", "i", "n", "s", "t",
            "a", "l", "l", "a", "t", "i", "o", "n", " ", "i", "n", "s", "t", "r", "u", "c",
            "t", "i", "o", "n", "s", "\n", "U+0060", "U+0060", "U+0060", "\n", "\n">>

\* InstallationBranch with the JavaScript test first: what C9 must tell from it
InstallationBranchNodeFirst(repo_info) ==
    LET text == Lower(repo_info)
    IN IF Contains(text, <<"j", "a", "v", "a", "s", "c", "r", "i", "p", "t">>) \/ Contains(text, <<"n", "o", "d", "e">>) THEN "node"
       ELSE IF Contains(text, <<"p", "y", "t", "h", "o", "n">>) THEN "python"
       ELSE "generic"

\* which template the Installation section takes
\* [src/tools.py:600-652 generate_smart_readme]
InstallationBranch(repo_info) ==
    LET text == Lower(repo_info)
    IN IF Contains(text, <<"p", "y", "t", "h", "o", "n">>) THEN "python"
       ELSE IF Contains(text, <<"j", "a", "v", "a", "s", "c", "r", "i", "p", "t">>) \/ Contains(text, <<"n", "o", "d", "e">>) THEN "node"
       ELSE "generic"

\* [src/tools.py:597-661 generate_smart_readme]
InstallationSection(repo_info, code_analysis, url, repo_name) ==
    <<"#", "#", " ", "I", "n", "s", "t", "a", "l", "l", "a", "t", "i", "o", "n", "\n",
            "\n">>
    \o (CASE InstallationBranch(repo_info) = "python" ->
               PythonSetup(url, repo_name)
               \o (IF WebFrameworkMarked(repo_info, code_analysis)
                   THEN RunningTheApplication ELSE << >>)
          [] InstallationBranch(repo_info) = "node" -> NodeSetup(url, repo_name)
          [] OTHER -> GenericSetup(url, repo_name))

\* [src/tools.py:667-670 generate_smart_readme]
CliCommandLines(code_analysis) ==
    LET lines == Split(code_analysis, "\n")
        kept  == SelectSeq(lines, LAMBDA l : /\ StartsWith(l, <<"-", " ">>)
                                            /\ \/ Contains(Lower(l), <<"c", "o", "m", "m", "a", "n", "d">>)
                                               \/ Contains(Lower(l), <<"c", "l", "i">>))
    IN [i \in 1..Len(kept) |-> Drop(kept[i], 2)]

\* [src/tools.py:664-677 generate_smart_readme]
UsageSection(code_analysis) ==
    LET cli_commands == Take(CliCommandLines(code_analysis), 3)
    IN <<"#", "#", " ", "U", "s", "a", "g", "e", "\n", "\n">>
       \o (IF cli_commands # << >>
           THEN <<"#", "#", "#", " ", "C", "o", "m", "m", "a", "n", "d", " ", "L", "i", "n", "e",
                   " ", "I", "n", "t", "e", "r", "f", "a", "c", "e", "\n", "\n">>
                \o Join(<< >>, [i \in 1..Len(cli_commands) |->
                                  <<"U+0060", "U+0060", "U+0060", "b", "a", "s", "h", "\n">> \o cli_commands[i] \o <<"\n", "U+0060", "U+0060", "U+0060", "\n", "\n">>])
           ELSE <<"[", "A", "d", "d", " ", "s", "p", "e", "c", "i", "f", "i", "c", " ", "u", "s",
                   "a", "g", "e", " ", "e", "x", "a", "m", "p", "l", "e", "s", " ", "h", "e", "r",
                   "e", "]", "\n", "\n">>)

\* [src/tools.py:680-688 generate_smart_readme]
ContributingSection ==
    <<"#", "#", " ", "C", "o", "n", "t", "r", "i", "b", "u", "t", "i", "n", "g", "\n",
            "\n", "1", ".", " ", "F", "o", "r", "k", " ", "t", "h", "e", " ", "r", "e", "p",
            "o", "s", "i", "t", "o", "r", "y", "\n", "2", ".", " ", "C", "r", "e", "a", "t",
            "e", " ", "a", " ", "f", "e", "a", "t", "u", "r", "e", " ", "b", "r", "a", "n",
            "c", "h", " ", "(", "U+0060", "g", "i", "t", " ", "c", "h", "e", "c", "k", "o", "u",
            "t", " ", "-", "b", " ", "f", "e", "a", "t", "u", "r", "e", "/", "a", "m", "a",
            "z", "i", "n", "g", "-", "f", "e", "a", "t", "u", "r", "e", "U+0060", ")", "\n", "3",
            ".", " ", "C", "o", "m", "m", "i", "t", " ", "y", "o", "u", "r", " ", "c", "h",
            "a", "n", "g", "e", "s", " ", "(", "U+0060", "g", "i", "t", " ", "c", "o", "m", "m",
            "i", "t", " ", "-", "m", " ", "'", "A", "d", "d", " ", "s", "o", "m", "e", " ",
            "a", "m", "a", "z", "i", "n", "g", " ", "f", "e", "a", "t", "u", "r", "e", "'",
            "U+0060", ")", "\n", "4", ".", " ", "P", "u", "s", "h", " ", "t", "o", " ", "t", "h",
            "e", " ", "b", "r", "a", "n", "c", "h", " ", "(", "U+0060", "g", "i", "t", " ", "p",
            "u", "s", "h", " ", "o", "r", "i", "g", "i", "n", " ", "f", "e", "a", "t", "u",
            "r", "e", "/", "a", "m", "a", "z", "i", "n", "g", "-", "f", "e", "a", "t", "u",
            "r", "e", "U+0060", ")", "\n", "5", ".", " ", "O", "p", "e", "n", " ", "a", " ", "P",
            "u", "l", "l", " ", "R", "e", "q", "u", "e", "s", "t", "\n", "\n">>

\* [src/tools.py:691-692 generate_smart_readme]
LicenseSection(license_info) ==
    IF Present(license_info)
    THEN <<"#", "#", " ", "L", "i", "c", "e", "n", "s", "e", "\n", "\n", "T", "h", "i", "s",
            " ", "p", "r", "o", "j", "e", "c", "t", " ", "i", "s", " ", "l", "i", "c", "e",
            "n", "s", "e", "d", " ", "u", "n", "d", "e", "r", " ", "t", "h", "e", " ">> \o license_info \o <<" ", "L", "i", "c", "e", "n", "s", "e", ".", "\n", "\n">>
    ELSE << >>

\* [src/tools.py:695-698 generate_smart_readme]
ContactSection(url) == <<"#", "#", " ", "C", "o", "n", "t", "a", "c", "t", "\n", "\n", "P", "r", "o", "j",
        "e", "c", "t", " ", "L", "i", "n", "k", ":", " ">> \o url \o <<"\n">>

\* [src/tools.py:493-700 generate_smart_readme]
GenerateSmartReadme(repo_info, code_analysis, features) ==
    LET lines == Split(repo_info, "\n")
        repo_name == HeaderField(lines, <<"N", "a", "m", "e", ":">>)
        description == HeaderField(lines, <<"D", "e", "s", "c", "r", "i", "p", "t", "i", "o", "n", ":">>)
        url == HeaderField(lines, <<"U", "R", "L", ":">>)
        topics == HeaderField(lines, <<"T", "o", "p", "i", "c", "s", ":">>)
        homepage == HeaderField(lines, <<"H", "o", "m", "e", "p", "a", "g", "e", ":">>)
        license_info == HeaderField(lines, <<"L", "i", "c", "e", "n", "s", "e", ":">>)
        project_type == ProjectType(repo_info)
    IN TitleBlock(repo_name, description, project_type)
       \o TopicsBlock(topics)
       \o HomepageBlock(homepage)
       \o OverviewSection(code_analysis, project_type)
       \o FeaturesSection(FeatureLines(features))
       \o ApiEndpointsSection(ApiEndpointLines(code_analysis))
       \o InstallationSection(repo_info, code_analysis, url, repo_name)
       \o UsageSection(code_analysis)
       \o ContributingSection
       \o LicenseSection(license_info)
       \o ContactSection(url)

\* [src/tools.py:704-714 finalize_readme_output]
FinalizeReadmeOutput(readme_content) ==
    <<"U+0060", "U+0060", "U+0060", "m", "a", "r", "k", "d", "o", "w", "n", "\n">> \o Strip(readme_content) \o <<"\n", "U+0060", "U+0060", "U+0060">>

(***************************************************************************)
(* The inputs the calls are checked on                                      *)
(***************************************************************************)

\* the longest top-level listing of a world
MaxListing == 6

\* the most raw files a world of the metadata fetch holds
MaxRemoteFiles == 2

\* the most @app.route decorators of a generated Python source
MaxRoutes == 2

Urls == {<<"h", "t", "t", "p", "s", ":", "/", "/", "g", "i", "t", "h", "u", "b", ".", "c",
        "o", "m", "/", "o", "/", "d", "e", "m", "o">>, <<"h", "t", "t", "p", "s", ":", "/", "/", "g", "i", "t", "h", "u", "b", ".", "c",
        "o", "m", "/", "o", "/", "d", "e", "m", "o", "/">>,
         <<"h", "t", "t", "p", "s", ":", "/", "/", "g", "i", "t", "h", "u", "b", ".", "c",
                 "o", "m", "/", "o">>, <<"g", "i", "t", "h", "u", "b", ".", "c", "o", "m", "/", "o", "/", "d", "e", "m",
                 "o">>, <<"n", "o", "u", "r", "l">>, << >>}

\* fewer than two path segments after the host
MalformedUrls == {<<"h", "t", "t", "p", "s", ":", "/", "/", "g", "i", "t", "h", "u", "b", ".", "c",
        "o", "m", "/", "o">>, <<"n", "o", "u", "r", "l">>, << >>}

TheRepo == <<<<"o">>, <<"d", "e", "m", "o">>>>

ApiAnswers ==
    {[status |-> "exception"], [status |-> "http_error"], [status |-> "bad_json"],
     [status |-> "ok",
      data |-> [description |-> NoneVal, topics |-> << >>, language |-> <<"P", "y", "t", "h", "o", "n">>,
                stargazers_count |-> 0, forks_count |-> 0, license |-> NoneVal,
                created_at |-> <<"2", "0", "2", "0", "-", "0", "1", "-", "0", "1", "T", "0", "0", ":", "0", "0",
                        ":", "0", "0", "Z">>, updated_at |-> <<"2", "0", "2", "1", "-", "0", "6", "-", "0", "1", "T", "0", "0", ":", "0", "0",
                        ":", "0", "0", "Z">>,
                default_branch |-> <<"m", "a", "i", "n">>, homepage |-> NoneVal]],
     [status |-> "ok",
      data |-> [description |-> <<"A", " ", "F", "l", "a", "s", "k", " ", "A", "P", "I">>, topics |-> <<<<"w", "e", "b">>, <<"a", "p", "i">>>>,
                language |-> <<"J", "a", "v", "a", "S", "c", "r", "i", "p", "t">>, stargazers_count |-> 120, forks_count |-> 7,
                license |-> <<"M", "I", "T", " ", "L", "i", "c", "e", "n", "s", "e">>, created_at |-> <<"2", "0", "2", "0", "-", "0", "1", "-", "0", "1", "T", "0", "0", ":", "0", "0",
                        ":", "0", "0", "Z">>,
                updated_at |-> <<"2", "0", "2", "1", "-", "0", "6", "-", "0", "1", "T", "0", "0", ":", "0", "0",
                        ":", "0", "0", "Z">>, default_branch |-> <<"d", "e", "v", "e", "l", "o", "p">>,
                homepage |-> <<"h", "t", "t", "p", "s", ":", "/", "/", "d", "e", "m", "o", ".", "i", "o">>]]}

LanguageAnswers ==
    {[status |-> "exception", items |-> << >>], [status |-> "http_error", items |-> << >>],
     [status |-> "ok", items |-> <<<<<<"P", "y", "t", "h", "o", "n">>, 1234>>, <<<<"H", "T", "M", "L">>, 20>>>>]}

\* raw files a repository may hold: READMEs and package descriptors
RemoteFiles ==
    {[branch |-> <<"d", "e", "v", "e", "l", "o", "p">>, path |-> <<"R", "E", "A", "D", "M", "E", ".", "m", "d">>, text |-> <<"#", " ", "D", "e", "m", "o", "\n", "T", "o", "p", "i", "c", "s", ":", " ", "N",
            "o", "n", "e", "\n">>],
     [branch |-> <<"m", "a", "i", "n">>, path |-> <<"R", "E", "A", "D", "M", "E", ".", "r", "s", "t">>, text |-> << >>],
     [branch |-> <<"m", "a", "s", "t", "e", "r">>, path |-> <<"r", "e", "a", "d", "m", "e", ".", "m", "d">>, text |-> <<"o", "l", "d">>],
     [branch |-> <<"m", "a", "i", "n">>, path |-> <<"r", "e", "q", "u", "i", "r", "e", "m", "e", "n", "t", "s", ".", "t", "x", "t">>, text |-> <<"f", "l", "a", "s", "k", "=", "=", "2", ".", "0", "\n">>],
     [branch |-> <<"m", "a", "s", "t", "e", "r">>, path |-> <<".", "g", "i", "t", "h", "u", "b", "/", "w", "o", "r", "k", "f", "l", "o", "w",
             "s", "/", "c", "i", ".", "y", "m", "l">>, text |-> <<"o", "n", ":", " ", "p", "u", "s", "h">>],
     [branch |-> <<"m", "a", "i", "n">>, path |-> <<".", "g", "i", "t", "h", "u", "b", "/", "w", "o", "r", "k", "f", "l", "o", "w",
             "s", "/", "m", "a", "i", "n", ".", "y", "m", "l">>, text |-> <<"o", "n", ":", " ", "\"", "p", "r", "\"">>]}

\* requests that may raise instead of answering
DownSets == {{}, {<<<<"m", "a", "i", "n">>, <<"R", "E", "A", "D", "M", "E", ".", "m", "d">>>>}, {<<<<"m", "a", "i", "n">>, <<"r", "e", "q", "u", "i", "r", "e", "m", "e", "n", "t", "s", ".", "t", "x", "t">>>>,
                                                  <<<<"m", "a", "s", "t", "e", "r">>, <<"r", "e", "a", "d", "m", "e", ".", "m", "d">>>>}}

NoListing == [status |-> "http_error", text |-> << >>, items |-> << >>]

\* the two API answers crossed with every language answer over an empty
\* repository, and every small set of raw files under a failing and an
\* answering API
FetchWorlds ==
    {[repo |-> TheRepo, api |-> a, lang |-> l, contents |-> NoListing, files |-> {}, down |-> {}] :
        a \in ApiAnswers, l \in LanguageAnswers}
    \cup
    {[repo |-> TheRepo, api |-> a, lang |-> [status |-> "http_error", items |-> << >>],
      contents |-> NoListing, files |-> f, down |-> d] :
        a \in {x \in ApiAnswers : x.status = "exception"
                                   \/ (x.status = "ok" /\ x.data.default_branch # <<"m", "a", "i", "n">>)},
        f \in {x \in SUBSET RemoteFiles : Cardinality(x) <= MaxRemoteFiles}, d \in DownSets}

\* the source files of the repository, by name
SourceText(name) ==
    CASE name = <<"u", "t", "i", "l", ".", "p", "y">>  -> <<"i", "m", "p", "o", "r", "t", " ", "o", "s", "\n", "c", "l", "a", "s", "s", " ",
            "U", "1", ":", " ", "p", "a", "s", "s", "\n", "c", "l", "a", "s", "s", " ", "U",
            "2", ":", " ", "p", "a", "s", "s", "\n", "d", "e", "f", " ", "g", "(", ")", ":",
            " ", "p", "a", "s", "s", "\n">>
      [] name = <<"a", "p", "p", ".", "p", "y">>   -> <<"f", "r", "o", "m", " ", "f", "l", "a", "s", "k", " ", "i", "m", "p", "o", "r",
              "t", " ", "F", "l", "a", "s", "k", "\n", "@", "a", "p", "p", ".", "r", "o", "u",
              "t", "e", "(", "'", "/", "h", "e", "a", "l", "t", "h", "'", ")", "\n", "c", "l",
              "a", "s", "s", " ", "A", ":", " ", "p", "a", "s", "s", "\n", "d", "e", "f", " ",
              "f", "(", ")", ":", " ", "p", "a", "s", "s", "\n", "i", "f", " ", "_", "_", "n",
              "a", "m", "e", "_", "_", " ", "=", "=", " ", "\"", "_", "_", "m", "a", "i", "n",
              "_", "_", "\"", ":", "\n">>
      [] name = <<"i", "n", "d", "e", "x", ".", "j", "s">> -> <<"c", "o", "n", "s", "t", " ", "e", "x", "p", "r", "e", "s", "s", " ", "=", " ",
              "r", "e", "q", "u", "i", "r", "e", "(", "'", "e", "x", "p", "r", "e", "s", "s",
              "'", ")", "\n", "a", "p", "p", ".", "g", "e", "t", "(", "'", "/", "x", "'", ",",
              " ", "f", ")", "\n", "f", "u", "n", "c", "t", "i", "o", "n", " ", "g", "o", "(",
              ")", " ", "{", "}", "\n">>
      [] name = <<"l", "i", "b", ".", "t", "s">>   -> <<"i", "m", "p", "o", "r", "t", " ", "a", " ", "f", "r", "o", "m", " ", "'", "b",
              "'", "\n", "i", "m", "p", "o", "r", "t", " ", "c", " ", "f", "r", "o", "m", " ",
              "'", "d", "'", "\n", "c", "l", "a", "s", "s", " ", "K", " ", "{", "}", "\n">>
      [] name = <<"c", "o", "r", "e", ".", "p", "y">>  -> <<"i", "m", "p", "o", "r", "t", " ", "p", "a", "n", "d", "a", "s", "\n", "d", "e",
              "f", " ", "h", "(", ")", ":", " ", "p", "a", "s", "s", "\n">>
      [] name = <<"M", "a", "i", "n", ".", "P", "Y">>  -> <<"d", "e", "f", " ", "u", "p", "p", "e", "r", "(", ")", ":", " ", "p", "a", "s",
              "s", "\n">>
      [] OTHER               -> <<"p", "a", "c", "k", "a", "g", "e", " ", "m", "a", "i", "n", "\n">>

\* a top-level listing is a run of consecutive entries of this one
ListingEntries ==
    <<[type |-> "dir", name |-> <<"s", "r", "c">>], [type |-> "file", name |-> <<"R", "E", "A", "D", "M", "E", ".", "m", "d">>],
      [type |-> "file", name |-> <<"u", "t", "i", "l", ".", "p", "y">>], [type |-> "file", name |-> <<"a", "p", "p", ".", "p", "y">>],
      [type |-> "file", name |-> <<"i", "n", "d", "e", "x", ".", "j", "s">>], [type |-> "file", name |-> <<"l", "i", "b", ".", "t", "s">>],
      [type |-> "file", name |-> <<"c", "o", "r", "e", ".", "p", "y">>], [type |-> "file", name |-> <<"M", "a", "i", "n", ".", "P", "Y">>],
      [type |-> "file", name |-> <<"x", ".", "g", "o">>]>>

Listings ==
    {q \in {SubSeq(ListingEntries, i, j) : i \in 1..Len(ListingEntries), j \in 0..Len(ListingEntries)} :
        Len(q) <= MaxListing}

SourceNames == {ListingEntries[k].name : k \in {k \in DOMAIN ListingEntries : ListingEntries[k].type = "file"}}

OnBranch(branch, names) == {[branch |-> branch, path |-> n, text |-> SourceText(n)] : n \in names}

\* the API answer of a repository whose default branch is develop
DeclaresDevelop ==
    CHOOSE a \in ApiAnswers : a.status = "ok" /\ a.data.default_branch = <<"d", "e", "v", "e", "l", "o", "p">>

\* which branch holds which source file, which content requests raise, and what
\* the API says of the repository
BranchLayouts ==
    {[files |-> OnBranch(<<"m", "a", "i", "n">>, SourceNames), down |-> {}, api |-> [status |-> "http_error"]],
     [files |-> OnBranch(<<"m", "a", "s", "t", "e", "r">>, SourceNames), down |-> {}, api |-> [status |-> "http_error"]],
     [files |-> OnBranch(<<"d", "e", "v", "e", "l", "o", "p">>, SourceNames), down |-> {}, api |-> DeclaresDevelop],
     [files |-> OnBranch(<<"m", "a", "i", "n">>, {<<"a", "p", "p", ".", "p", "y">>, <<"l", "i", "b", ".", "t", "s">>, <<"c", "o", "r", "e", ".", "p", "y">>, <<"x", ".", "g", "o">>})
                \cup OnBranch(<<"m", "a", "s", "t", "e", "r">>, {<<"u", "t", "i", "l", ".", "p", "y">>, <<"c", "o", "r", "e", ".", "p", "y">>, <<"M", "a", "i", "n", ".", "P", "Y">>}),
      down |-> {<<<<"m", "a", "i", "n">>, <<"c", "o", "r", "e", ".", "p", "y">>>>}, api |-> [status |-> "http_error"]]}

ListingAnswers ==
    {[status |-> "exception", text |-> <<"t", "i", "m", "e", "d", " ", "o", "u", "t">>, items |-> << >>], NoListing}
    \cup {[status |-> "ok", text |-> << >>, items |-> q] : q \in Listings}

AnalyzeWorlds ==
    {[repo |-> TheRepo, api |-> b.api,
      lang |-> [status |-> "http_error", items |-> << >>],
      contents |-> c, files |-> b.files, down |-> b.down] :
        c \in ListingAnswers, b \in BranchLayouts}

NoWorld == [repo |-> << >>, api |-> [status |-> "http_error"],
            lang |-> [status |-> "http_error", items |-> << >>],
            contents |-> NoListing, files |-> {}, down |-> {}]

RoutePaths == {<<"/", "h", "e", "a", "l", "t", "h">>, <<"/", "u", "s", "e", "r", "s">>}

PathSeqs == UNION {[1..n -> RoutePaths] : n \in 0..MaxRoutes}

SourcePrefixes == {<< >>, <<"f", "r", "o", "m", " ", "f", "l", "a", "s", "k", " ", "i", "m", "p", "o", "r",
        "t", " ", "F", "l", "a", "s", "k", "\n">>, <<"F", "L", "A", "S", "K", " ", "=", " ", "1", "\n", "i", "m", "p", "o", "r", "t",
        " ", "f", "a", "s", "t", "a", "p", "i", "\n">>,
                   <<"f", "r", "o", "m", " ", "a", "p", "p", " ", "i", "m", "p", "o", "r", "t", " ",
                           "a", "p", "p", "\n">>}

\* a Python source with one @app.route decorator per path, in order
RouteSource(prefix, paths) ==
    prefix \o Join(<< >>, [i \in 1..Len(paths) |->
                             <<"@", "a", "p", "p", ".", "r", "o", "u", "t", "e", "(", "'">> \o paths[i] \o <<"'", ")", "\n", "d", "e", "f", " ", "v", "i", "e", "w", "(", ")", ":", " ", "p",
                                     "a", "s", "s", "\n">>])

PyContents == {RouteSource(p, q) : p \in SourcePrefixes, q \in PathSeqs}
              \cup {<<"f", "r", "o", "m", " ", "f", "a", "s", "t", "a", "p", "i", " ", "i", "m", "p",
                      "o", "r", "t", " ", "F", "a", "s", "t", "A", "P", "I", "\n", "@", "a", "p", "p",
                      ".", "g", "e", "t", "(", "'", "/", "i", "t", "e", "m", "s", "'", ")", "\n", "@",
                      "a", "p", "p", ".", "r", "o", "u", "t", "e", "(", "'", "/", "o", "l", "d", "'",
                      ")", "\n">>}

JsContents == {SourceText(<<"i", "n", "d", "e", "x", ".", "j", "s">>), SourceText(<<"l", "i", "b", ".", "t", "s">>),
               <<"i", "m", "p", "o", "r", "t", " ", "R", "e", "a", "c", "t", " ", "f", "r", "o",
                       "m", " ", "'", "r", "e", "a", "c", "t", "'", "\n", "c", "o", "n", "s", "t", " ",
                       "h", " ", "=", " ", "(", "a", ")", " ", "=", ">", " ", "1", "\n">>}

\* the header lines of a metadata report: each optional field absent, empty,
\* the literal None, or set
HeaderVariants ==
    {[topics |-> t, homepage |-> h, license |-> l] :
        t \in {"absent", "set"}, h \in {"absent", "set"}, l \in {"absent", "set"}}
    \cup {[topics |-> t, homepage |-> "set", license |-> "set"] : t \in {"empty", "none"}}
    \cup {[topics |-> "set", homepage |-> h, license |-> "set"] : h \in {"empty", "none"}}
    \cup {[topics |-> "set", homepage |-> "set", license |-> l] : l \in {"empty", "none"}}

HeaderLine(label, value, kind) ==
    CASE kind = "absent" -> << >>
      [] kind = "empty"  -> label \o <<"\n">>
      [] kind = "none"   -> label \o <<" ", "N", "o", "n", "e", "\n">>
      [] kind = "set"    -> label \o <<" ">> \o value \o <<"\n">>

\* the rest of a metadata report: the lines that carry the ecosystem and technology words
MarkerLines == {<< >>, <<"L", "a", "n", "g", "u", "a", "g", "e", "s", ":", " ", "\"", "P", "y", "t", "h",
        "o", "n", "\"", "\n">>, <<"L", "a", "n", "g", "u", "a", "g", "e", "s", ":", " ", "\"", "J", "a", "v", "a",
        "S", "c", "r", "i", "p", "t", "\"", "\n">>,
                <<"r", "u", "n", "s", " ", "o", "n", " ", "n", "o", "d", "e", "\n">>, <<"L", "a", "n", "g", "u", "a", "g", "e", "s", ":", " ", "\"", "R", "u", "s", "t",
                        "\"", "\n">>, <<"L", "a", "n", "g", "u", "a", "g", "e", "s", ":", " ", "\"", "G", "o", "\"", "\n",
                        "m", "o", "n", "g", "o", "d", "b", "\n">>,
                <<"p", "y", "t", "h", "o", "n", " ", "f", "l", "a", "s", "k", "\n">>, <<"P", "y", "t", "h", "o", "n", " ", "a", "n", "d", " ", "F", "a", "s", "t", "A",
                        "P", "I", " ", "i", "n", " ", "d", "o", "c", "k", "e", "r", "\n">>,
                <<"j", "a", "v", "a", "s", "c", "r", "i", "p", "t", " ", "w", "i", "t", "h", " ",
                        "p", "y", "t", "h", "o", "n", "\n">>, <<"p", "a", "n", "d", "a", "s", " ", "o", "v", "e", "r", " ", "r", "e", "s", "t",
                        "\n">>, <<"R", "e", "a", "c", "t", "\n">>}

MetaReport(v, markers) ==
    <<"N", "a", "m", "e", ":", " ", "d", "e", "m", "o", "\n", "D", "e", "s", "c", "r",
            "i", "p", "t", "i", "o", "n", ":", " ", "N", "o", "n", "e", "\n", "U", "R", "L",
            ":", " ", "h", "t", "t", "p", ":", "/", "/", "h", "o", "s", "t", "/", "o", "/",
            "d", "e", "m", "o", "\n">>
    \o HeaderLine(<<"T", "o", "p", "i", "c", "s", ":">>, <<"w", "e", "b", ",", " ", "c", "l", "i">>, v.topics)
    \o HeaderLine(<<"H", "o", "m", "e", "p", "a", "g", "e", ":">>, <<"h", "t", "t", "p", "s", ":", "/", "/", "d", "e", "m", "o", ".", "i", "o">>, v.homepage)
    \o HeaderLine(<<"L", "i", "c", "e", "n", "s", "e", ":">>, <<"M", "I", "T">>, v.license)
    \o markers

\* every header variant over a Python and a JavaScript repository, and every
\* marker line under a full and an empty header
MetaReports ==
    {MetaReport(v, m) : v \in HeaderVariants,
                        m \in {<<"L", "a", "n", "g", "u", "a", "g", "e", "s", ":", " ", "\"", "P", "y", "t", "h",
                                "o", "n", "\"", "\n">>, <<"r", "u", "n", "s", " ", "o", "n", " ", "n", "o", "d", "e", "\n">>}}
    \cup {MetaReport([topics |-> k, homepage |-> k, license |-> k], m) :
             k \in {"absent", "set"}, m \in MarkerLines}

\* analysis reports given directly
AnalysisReports ==
    {<< >>,
     <<"A", "P", "I", " ", "E", "n", "d", "p", "o", "i", "n", "t", "s", " ", "D", "e",
             "t", "e", "c", "t", "e", "d", ":", "\n", "-", " ", "G", "E", "T", " ", "/", "u",
             "s", "e", "r", "s", "\n">>,
     <<"M", "a", "i", "n", " ", "F", "u", "n", "c", "t", "i", "o", "n", "a", "l", "i",
             "t", "y", " ", "D", "e", "t", "e", "c", "t", "e", "d", ":", "\n", "-", " ", "F",
             "l", "a", "s", "k", " ", "w", "e", "b", " ", "a", "p", "p", "l", "i", "c", "a",
             "t", "i", "o", "n", "\n", "\n", "A", "P", "I", " ", "E", "n", "d", "p", "o", "i",
             "n", "t", "s", " ", "D", "e", "t", "e", "c", "t", "e", "d", ":", "\n", "-", " ",
             "G", "E", "T", "/", "P", "O", "S", "T", " ", "/", "a", "\n", "-", " ", "G", "E",
             "T", " ", "/", "b", "\n", "-", " ", "P", "O", "S", "T", " ", "/", "c", "\n", "-",
             " ", "P", "U", "T", " ", "/", "d", "\n", "-", " ", "D", "E", "L", "E", "T", "E",
             " ", "/", "e", "\n", "-", " ", "G", "E", "T", " ", "/", "f", "\n", "-", " ", "G",
             "E", "T", " ", "/", "g", "\n", "\n", "C", "L", "I", " ", "C", "o", "m", "m", "a",
             "n", "d", "s", ":", "\n">>,
     <<"M", "a", "i", "n", " ", "F", "u", "n", "c", "t", "i", "o", "n", "a", "l", "i",
             "t", "y", " ", "D", "e", "t", "e", "c", "t", "e", "d", ":", "\n", "-", " ", "F",
             "a", "s", "t", "A", "P", "I", " ", "w", "e", "b", " ", "s", "e", "r", "v", "i",
             "c", "e", "\n">>,
     <<"d", "o", "c", "k", "e", "r", "\n", "n", "u", "m", "p", "y", "\n", "s", "q", "l",
             "i", "t", "e", "\n", "r", "e", "s", "t", " ", "a", "p", "i", "\n", "r", "e", "a",
             "c", "t", "\n">>,
     <<"C", "L", "I", " ", "C", "o", "m", "m", "a", "n", "d", "s", ":", "\n", "-", " ",
             "r", "u", "n", " ", "c", "o", "m", "m", "a", "n", "d", "\n">>}

\* feature reports given directly
FeatureReports ==
    {<< >>, <<"K", "e", "y", " ", "F", "e", "a", "t", "u", "r", "e", "s", ":", "\n", "-", " ",
            "f", "1", "\n", "-", " ", "f", "2", "\n", "-", " ", "f", "3", "\n", "-", " ", "f",
            "4", "\n", "-", " ", "f", "5", "\n", "-", " ", "f", "6", "\n", "-", " ", "f", "7",
            "\n", "-", " ", "f", "8", "\n", "-", " ", "f", "9", "\n", "-", " ", "f", "1", "0",
            "\n">>}

\* the reports the metadata fetch returns
FetchedReports == {FetchComprehensiveRepoInfo(u, w).value : u \in Urls, w \in FetchWorlds}

\* the reports the code analysis returns
AnalyzedReports ==
    UNION {IF g.raised # "" THEN {}
           ELSE IF g.done THEN {g.value}
           ELSE {FormatAnalysis(g.analysis, p) : p \in SetOrders(g.analysis.imports)} :
           g \in {AnalyzeCodeGather(u, w) : u \in Urls, w \in AnalyzeWorlds}}

\* metadata reports that name many technologies
RichMetaReports == {m \in MetaReports : Contains(m, <<"F", "a", "s", "t", "A", "P", "I", " ", "i", "n", " ", "d", "o", "c", "k", "e",
        "r">>)}

\* the reports the agent hands to extract_project_features: written ones, the
\* ones the two tools before it returned, and a written metadata report with a
\* returned analysis report
ExtractInputs == (MetaReports \X AnalysisReports) \cup (FetchedReports \X AnalyzedReports)
                 \cup (RichMetaReports \X AnalyzedReports)

(***************************************************************************)
(* The calls.  The driving agent calls any tool with any arguments; the     *)
(* state is the last call, its arguments, what it returned or raised, and   *)
(* what it computed on the way.                                             *)
(***************************************************************************)

VARIABLES
    op,        \* the tool last called, "idle" before any call
    args,      \* its arguments
    ret,       \* the text it returned
    raised,    \* the fault it raised, "" if it returned
    analysis,  \* analyze_*: the report's lists
    perfile,   \* analyze_code_content: the detector results merged, in order
    key_files, \* analyze_code_content: the candidate list
    lists,     \* extract_project_features: features, technologies, use_cases
    log        \* the requests issued

vars == <<op, args, ret, raised, analysis, perfile, key_files, lists, log>>

NoArgs == [github_url |-> << >>, world |-> NoWorld, repo_info |-> << >>,
           code_analysis |-> << >>, features |-> << >>, content |-> << >>,
           filename |-> << >>]

NoLists == [features |-> << >>, technologies |-> << >>, use_cases |-> << >>]

\* [src/app.py:20-36 agent]
Init == /\ op = "idle"
        /\ args = NoArgs
        /\ ret = << >>
        /\ raised = ""
        /\ analysis = InitialAnalysis
        /\ perfile = << >>
        /\ key_files = << >>
        /\ lists = NoLists
        /\ log = << >>

\* [src/tools.py:34-174 fetch_comprehensive_repo_info]
CallFetch ==
    /\ op = "idle"
    /\ \E u \in Urls, w \in FetchWorlds :
         \E r \in {FetchComprehensiveRepoInfo(u, w)} :
            /\ op' = "fetch_comprehensive_repo_info"
            /\ args' = [NoArgs EXCEPT !.github_url = u, !.world = w]
            /\ ret' = r.value
            /\ raised' = r.raised
            /\ log' = r.log
            /\ analysis' = InitialAnalysis
            /\ perfile' = << >>
            /\ key_files' = << >>
            /\ lists' = NoLists

\* [src/tools.py:176-277 analyze_code_content]
CallAnalyze ==
    /\ op = "idle"
    /\ \E u \in Urls, w \in AnalyzeWorlds :
         \E g \in {AnalyzeCodeGather(u, w)} :
            /\ op' = "analyze_code_content"
            /\ args' = [NoArgs EXCEPT !.github_url = u, !.world = w]
            /\ \E p \in SetOrders(g.analysis.imports) :
                 ret' = IF g.done THEN g.value ELSE FormatAnalysis(g.analysis, p)
            /\ raised' = g.raised
            /\ log' = g.log
            /\ analysis' = g.analysis
            /\ perfile' = g.perfile
            /\ key_files' = g.key_files
            /\ lists' = NoLists

\* [src/tools.py:279-345 analyze_python_code]
CallAnalyzePython ==
    /\ op = "idle"
    /\ \E c \in PyContents :
         /\ op' = "analyze_python_code"
         /\ args' = [NoArgs EXCEPT !.content = c, !.filename = <<"a", "p", "p", ".", "p", "y">>]
         /\ analysis' = AnalyzePythonCode(c, <<"a", "p", "p", ".", "p", "y">>)
         /\ ret' = << >>
         /\ raised' = ""
         /\ UNCHANGED <<perfile, key_files, lists, log>>

\* [src/tools.py:347-402 analyze_js_code]
CallAnalyzeJs ==
    /\ op = "idle"
    /\ \E c \in JsContents :
         /\ op' = "analyze_js_code"
         /\ args' = [NoArgs EXCEPT !.content = c, !.filename = <<"i", "n", "d", "e", "x", ".", "j", "s">>]
         /\ analysis' = AnalyzeJsCode(c, <<"i", "n", "d", "e", "x", ".", "j", "s">>)
         /\ ret' = << >>
         /\ raised' = ""
         /\ UNCHANGED <<perfile, key_files, lists, log>>

\* [src/tools.py:404-490 extract_project_features]
CallExtract ==
    /\ op = "idle"
    /\ \E c \in ExtractInputs :
         \E l \in {ExtractLists(c[1], c[2])} :
            /\ op' = "extract_project_features"
            /\ args' = [NoArgs EXCEPT !.repo_info = c[1], !.code_analysis = c[2]]
            /\ lists' = l
            /\ ret' = FormatFeatures(l)
            /\ raised' = ""
            /\ analysis' = InitialAnalysis
            /\ perfile' = << >>
            /\ key_files' = << >>
            /\ log' = << >>

\* CallGenerate reading the feature list the call before it left behind, where
\* there is one: what C11 must tell from it
CallGenerateFromLeftovers ==
    /\ \/ /\ op = "idle"
          /\ \E ri \in MetaReports, ca \in AnalysisReports, f \in FeatureReports :
                args' = [NoArgs EXCEPT !.repo_info = ri, !.code_analysis = ca, !.features = f]
       \/ /\ op = "extract_project_features"
          /\ args' = [args EXCEPT !.features = ret]
    /\ op' = "generate_smart_readme"
    /\ ret' = GenerateSmartReadme(args'.repo_info, args'.code_analysis,
                                  IF op = "idle" THEN args'.features
                                  ELSE <<"K", "e", "y", " ", "F", "e", "a", "t", "u", "r", "e", "s", ":", "\n">> \o Bullets(lists.features))
    /\ raised' = ""
    /\ analysis' = InitialAnalysis
    /\ perfile' = << >>
    /\ key_files' = << >>
    /\ lists' = NoLists
    /\ log' = << >>

\* the agent calls the tool on reports and a feature list of its own, on the
\* feature list extract_project_features returns for the two reports, or right
\* after extract_project_features on what that call took and returned
\* [src/tools.py:492-700 generate_smart_readme]
CallGenerate ==
    /\ \/ /\ op = "idle"
          /\ \E ri \in MetaReports, ca \in AnalysisReports :
               \E f \in FeatureReports \cup {ExtractProjectFeatures(ri, ca)} :
                args' = [NoArgs EXCEPT !.repo_info = ri, !.code_analysis = ca, !.features = f]
       \/ /\ op = "extract_project_features"
          /\ args' = [args EXCEPT !.features = ret]
    /\ op' = "generate_smart_readme"
    /\ ret' = GenerateSmartReadme(args'.repo_info, args'.code_analysis, args'.features)
    /\ raised' = ""
    /\ analysis' = InitialAnalysis
    /\ perfile' = << >>
    /\ key_files' = << >>
    /\ lists' = NoLists
    /\ log' = << >>

\* [src/tools.py:703-714 finalize_readme_output]
CallFinalize ==
    /\ op = "generate_smart_readme"
    /\ op' = "finalize_readme_output"
    /\ ret' = FinalizeReadmeOutput(ret)
    /\ UNCHANGED <<args, raised, analysis, perfile, key_files, lists, log>>

\* the agent starts over: nothing of a call outlives it
\* [src/app.py:38-60 run_agent]
NewRequest ==
    /\ op # "idle"
    /\ op' = "idle"
    /\ args' = NoArgs
    /\ ret' = << >>
    /\ raised' = ""
    /\ analysis' = InitialAnalysis
    /\ perfile' = << >>
    /\ key_files' = << >>
    /\ lists' = NoLists
    /\ log' = << >>

\* [src/app.py:20-36 agent]
Next == \/ CallFetch
        \/ CallAnalyze
        \/ CallAnalyzePython
        \/ CallAnalyzeJs
        \/ CallExtract
        \/ CallGenerate
        \/ CallFinalize
        \/ NewRequest

\* [src/app.py:20-36 agent]
Spec == Init /\ [][Next]_vars

(***************************************************************************)
(* The properties.  Each is read off the state a call leaves: its           *)
(* arguments, the text it returned, the fault it raised and the lists it    *)
(* computed on the way.                                                     *)
(***************************************************************************)

\* the lines of a text
Lines(text) == Split(text, "\n")

\* how many lines of ls, from the i-th on, are bullets in a row
RECURSIVE BulletRun(_, _)
BulletRun(ls, i) ==
    IF i <= Len(ls) /\ StartsWith(ls[i], <<"-", " ">>) THEN 1 + BulletRun(ls, i + 1) ELSE 0

\* the bullets of the list that starts d lines below the first line that reads
\* heading; 0 when no line does
BulletsBelow(ls, heading, d) ==
    LET at == {i \in 1..Len(ls) : ls[i] = heading}
    IN IF at = {} THEN 0
       ELSE BulletRun(ls, (CHOOSE i \in at : \A j \in at : i <= j) + d)

BulletsUnder(text, heading, d) == BulletsBelow(Lines(text), heading, d)

\* the lines after the first line that reads heading, up to the next "## " line
SectionOf(ls, heading) ==
    LET at == {i \in 1..Len(ls) : ls[i] = heading}
    IN IF at = {} THEN << >>
       ELSE LET first == CHOOSE i \in at : \A j \in at : i <= j
                stops == {i \in (first + 1)..Len(ls) : StartsWith(ls[i], <<"#", "#", " ">>)}
                last  == IF stops = {} THEN Len(ls)
                         ELSE (CHOOSE i \in stops : \A j \in stops : i <= j) - 1
            IN SubSeq(ls, first + 1, last)

\* the Installation section of a document
InstallationLines(readme) == SectionOf(Lines(readme), <<"#", "#", " ", "I", "n", "s", "t", "a", "l", "l", "a", "t", "i", "o", "n">>)

\* the field f of the results, one after the other
RECURSIVE ConcatOf(_, _)
ConcatOf(results, f) ==
    IF results = << >> THEN << >> ELSE Head(results)[f] \o ConcatOf(Tail(results), f)

\* C1: after analyze_code_content has processed its files in order, every list
\* field of the cumulative report is the concatenation, in analysis order, of
\* that field of the per-file detector results: nothing an earlier file
\* contributed is removed or overwritten.
C1_MergeIsConcatenation ==
    (op = "analyze_code_content" /\ raised = "") =>
        \A f \in DOMAIN EmptyAnalysis : analysis[f] = ConcatOf(perfile, f)

\* the "VERB path" texts of the bulleted endpoint lines of a report, in order
EndpointEntries(code_analysis) ==
    LET ls   == Lines(code_analysis)
        kept == SelectSeq(ls, LAMBDA l : \E k \in 1..4 :
                                  /\ StartsWith(l, <<"-", " ">> \o HttpVerbs[k] \o <<" ">>)
                                  /\ Len(l) > Len(HttpVerbs[k]) + 3)
    IN [i \in 1..Len(kept) |-> Drop(kept[i], 2)]

\* some feature names every one of the entries
SomeFeatureNames(features, entries) ==
    \E i \in 1..Len(features) :
        \A k \in 1..Len(entries) : Contains(features[i], entries[k])

\* C2: when the analysis report given to extract_project_features contains "api
\* endpoints detected" (in any case) and bulleted endpoint lines "- VERB path",
\* one feature of the list reproduces verb and path of the first up to 3 of them;
\* with "flask" in the metadata report the list also has "RESTful API endpoints".
C2_SummaryReproducesEndpoints ==
    (/\ op = "extract_project_features"
     /\ Contains(Lower(args.code_analysis), <<"a", "p", "i", " ", "e", "n", "d", "p", "o", "i", "n", "t", "s", " ", "d", "e",
             "t", "e", "c", "t", "e", "d">>)
     /\ EndpointEntries(args.code_analysis) # << >>) =>
        /\ SomeFeatureNames(lists.features, Take(EndpointEntries(args.code_analysis), 3))
        /\ Contains(Lower(args.repo_info), <<"f", "l", "a", "s", "k">>) =>
              <<"R", "E", "S", "T", "f", "u", "l", " ", "A", "P", "I", " ", "e", "n", "d", "p",
                      "o", "i", "n", "t", "s">> \in Range(lists.features)

\* C3: when the metadata report given to generate_smart_readme contains "python"
\* and the analysis report contains "flask" or "fastapi", the Installation
\* section has a pip install line and the subsection "Running the Application",
\* whether or not the metadata report names the framework.
C3_ServerStartFromAnalysisReport ==
    (/\ op = "generate_smart_readme"
     /\ Contains(Lower(args.repo_info), <<"p", "y", "t", "h", "o", "n">>)
     /\ \/ Contains(Lower(args.code_analysis), <<"f", "l", "a", "s", "k">>)
        \/ Contains(Lower(args.code_analysis), <<"f", "a", "s", "t", "a", "p", "i">>)) =>
        /\ \E l \in Range(InstallationLines(ret)) : StartsWith(l, <<"p", "i", "p", " ", "i", "n", "s", "t", "a", "l", "l">>)
        /\ <<"#", "#", "#", " ", "R", "u", "n", "n", "i", "n", "g", " ", "t", "h", "e", " ",
                "A", "p", "p", "l", "i", "c", "a", "t", "i", "o", "n">> \in Range(InstallationLines(ret))

\* the endpoint list the decorators of the paths stand for
RouteEntries(paths) == [i \in 1..Len(paths) |-> <<"G", "E", "T", "/", "P", "O", "S", "T", " ">> \o paths[i]]

\* C4, as stated: for a Python source with one or more @app.route('<path>')
\* decorators and no @app.get/post/put/delete decorator, analyze_python_code
\* returns exactly the entries "GET/POST <path>", one per decorator in source
\* order, whether or not the text contains the word "flask".
C4_RoutesListedWithOrWithoutFlask ==
    op = "analyze_python_code" =>
        \A p \in SourcePrefixes, q \in PathSeqs :
            (Len(q) >= 1 /\ args.content = RouteSource(p, q)) =>
                analysis.apis_endpoints = RouteEntries(q)

\* C4, amended: for a Python source with one or more @app.route('<path>')
\* decorators, no @app.get/post/put/delete decorator, and the word "flask" (in
\* any case) somewhere in its text, analyze_python_code returns exactly the
\* entries "GET/POST <path>", one per decorator in source order.
C4_RoutesListedWhenFlaskNamed ==
    op = "analyze_python_code" =>
        \A p \in SourcePrefixes, q \in PathSeqs :
            (/\ Len(q) >= 1
             /\ args.content = RouteSource(p, q)
             /\ Contains(Lower(args.content), <<"f", "l", "a", "s", "k">>)) =>
                analysis.apis_endpoints = RouteEntries(q)

\* two decorators in a source that names flask, and their two entries
C4_Witness ==
    /\ op = "analyze_python_code"
    /\ args.content = RouteSource(<<"f", "r", "o", "m", " ", "f", "l", "a", "s", "k", " ", "i", "m", "p", "o", "r",
            "t", " ", "F", "l", "a", "s", "k", "\n">>, <<<<"/", "u", "s", "e", "r", "s">>, <<"/", "h", "e", "a", "l", "t", "h">>>>)
    /\ analysis.apis_endpoints = <<<<"G", "E", "T", "/", "P", "O", "S", "T", " ", "/", "u", "s", "e", "r", "s">>, <<"G", "E", "T", "/", "P", "O", "S", "T", " ", "/", "h", "e", "a", "l", "t", "h">>>>

\* C5: for a URL with fewer than two path segments after the host (one with no
\* "/" among them), fetch_comprehensive_repo_info and analyze_code_content both
\* return a fixed descriptive string and raise nothing.
C5_MalformedUrlNeverFaults ==
    (/\ op \in {"fetch_comprehensive_repo_info", "analyze_code_content"}
     /\ args.github_url \in MalformedUrls) =>
        /\ raised = ""
        /\ ret \in {InvalidUrlMessage, NoAccessMessage}

\* the URLs of the form scheme://host/owner/repo, with or without a closing "/"
WellFormedUrls == {<<"h", "t", "t", "p", "s", ":", "/", "/", "g", "i", "t", "h", "u", "b", ".", "c",
        "o", "m", "/", "o", "/", "d", "e", "m", "o">>, <<"h", "t", "t", "p", "s", ":", "/", "/", "g", "i", "t", "h", "u", "b", ".", "c",
        "o", "m", "/", "o", "/", "d", "e", "m", "o", "/">>}

\* the labels of the header lines of a metadata report, in order
ReportLabels == <<<<"N", "a", "m", "e">>, <<"O", "w", "n", "e", "r">>, <<"U", "R", "L">>, <<"D", "e", "s", "c", "r", "i", "p", "t", "i", "o", "n">>, <<"T", "o", "p", "i", "c", "s">>, <<"H", "o", "m", "e", "p", "a", "g", "e">>,
                  <<"S", "t", "a", "r", "s">>, <<"F", "o", "r", "k", "s">>, <<"L", "i", "c", "e", "n", "s", "e">>, <<"C", "r", "e", "a", "t", "e", "d">>, <<"U", "p", "d", "a", "t", "e", "d">>,
                  <<"D", "e", "f", "a", "u", "l", "t", " ", "B", "r", "a", "n", "c", "h">>, <<"L", "a", "n", "g", "u", "a", "g", "e", "s">>>>

\* every README and descriptor request of the call failed
EveryProbeFailed ==
    \A k \in 1..Len(log) :
        log[k][1] = "raw" =>
            RawResponse(args.world, TheRepo[1], TheRepo[2], log[k][2], log[k][3]).status # "ok"

\* the end of a report whose package and README blocks read their placeholders
PlaceholderBlocks ==
    <<"\n", "C", "o", "n", "f", "i", "g", "u", "r", "a", "t", "i", "o", "n", "/", "P",
            "a", "c", "k", "a", "g", "e", " ", "F", "i", "l", "e", "s", " ", "F", "o", "u",
            "n", "d", ":", "\n", "N", "o", "n", "e", " ", "f", "o", "u", "n", "d", "\n", "\n",
            "E", "x", "i", "s", "t", "i", "n", "g", " ", "R", "E", "A", "D", "M", "E", " ",
            "C", "o", "n", "t", "e", "n", "t", ":", "\n", "N", "o", " ", "R", "E", "A", "D",
            "M", "E", " ", "f", "o", "u", "n", "d", "\n">>

\* C6: for a well-formed URL, whatever each network call of
\* fetch_comprehensive_repo_info does (non-200, timeout, exception), the call
\* raises nothing and returns a report whose lines 2 to 14 carry the labels Name,
\* Owner, URL, Description, Topics, Homepage, Stars, Forks, License, Created,
\* Updated, Default Branch, Languages; when every README probe and every
\* descriptor probe fails, the package block reads "None found" and the README
\* block "No README found".
C6_CompleteReportUnderFailures ==
    (op = "fetch_comprehensive_repo_info" /\ args.github_url \in WellFormedUrls) =>
        /\ raised = ""
        /\ \E ls \in {Lines(ret)} :
              /\ Len(ls) > Len(ReportLabels)
              /\ \A k \in 1..Len(ReportLabels) : StartsWith(ls[k + 1], ReportLabels[k] \o <<":">>)
        /\ EveryProbeFailed => EndsWith(ret, PlaceholderBlocks)

\* every request of a call on a well-formed URL fails, some by raising, and the
\* report ends with the two placeholders
C6_Witness ==
    /\ op = "fetch_comprehensive_repo_info"
    /\ args.github_url \in WellFormedUrls
    /\ args.world.api.status = "exception"
    /\ args.world.lang.status # "ok"
    /\ args.world.down # {}
    /\ \E k \in 1..Len(log) : log[k][1] = "raw"
    /\ EveryProbeFailed
    /\ EndsWith(ret, PlaceholderBlocks)
    /\ raised = ""

\* C7: however many items were detected, the Key Features list of
\* extract_project_features and the Features section of generate_smart_readme
\* have at most 8 bullets, the API Endpoints section of generate_smart_readme
\* at most 6, and the Key Classes and Key Functions lists of
\* analyze_code_content at most 10 each.
C7_RenderedListsCapped ==
    /\ op = "extract_project_features" =>
          BulletsUnder(ret, <<"K", "e", "y", " ", "F", "e", "a", "t", "u", "r", "e", "s", ":">>, 1) <= 8
    /\ op = "generate_smart_readme" =>
          /\ BulletsUnder(ret, <<"#", "#", " ", "F", "e", "a", "t", "u", "r", "e", "s">>, 2) <= 8
          /\ BulletsUnder(ret, <<"#", "#", " ", "A", "P", "I", " ", "E", "n", "d", "p", "o", "i", "n", "t", "s">>, 2) <= 6
    /\ (op = "analyze_code_content" /\ raised = "") =>
          /\ BulletsUnder(ret, <<"K", "e", "y", " ", "C", "l", "a", "s", "s", "e", "s", "/", "C", "o", "m", "p",
                  "o", "n", "e", "n", "t", "s", ":">>, 1) <= 10
          /\ BulletsUnder(ret, <<"K", "e", "y", " ", "F", "u", "n", "c", "t", "i", "o", "n", "s", "/", "M", "e",
                  "t", "h", "o", "d", "s", ":">>, 1) <= 10

\* more than 8 features detected, 8 rendered
C7_Witness ==
    /\ op = "extract_project_features"
    /\ Len(lists.features) > 8
    /\ BulletsUnder(ret, <<"K", "e", "y", " ", "F", "e", "a", "t", "u", "r", "e", "s", ":">>, 1) = 8

\* some line of the report starts with the label and carries a value other than
\* nothing and the literal None
FieldGiven(repo_info, label) ==
    \E l \in Range(Lines(repo_info)) :
        /\ StartsWith(l, label)
        /\ Strip(Drop(l, Len(label))) \notin {<< >>, <<"N", "o", "n", "e">>}

\* no line of the report starts with the label
FieldAbsent(repo_info, label) ==
    \A l \in Range(Lines(repo_info)) : ~StartsWith(l, label)

TopicsEmitted(readme) == \E l \in Range(Lines(readme)) : StartsWith(l, <<"*", "*", "T", "o", "p", "i", "c", "s", ":", "*", "*">>)

LiveDemoEmitted(readme) == \E l \in Range(Lines(readme)) : Contains(l, <<"L", "i", "v", "e", " ", "D", "e", "m", "o">>)

LicenseEmitted(readme) == <<"#", "#", " ", "L", "i", "c", "e", "n", "s", "e">> \in Range(Lines(readme))

\* C8: generate_smart_readme completes without error, and its output has a
\* "**Topics:**" line only when the Topics field of the metadata report is
\* present with a value other than empty and "None", a "Live Demo" line only
\* when the Homepage field is, and a "## License" section only when the License
\* field is; a report without the field gets no such section.
C8_OptionalSectionsOnlyWhenGiven ==
    op = "generate_smart_readme" =>
        /\ raised = ""
        /\ TopicsEmitted(ret) => FieldGiven(args.repo_info, <<"T", "o", "p", "i", "c", "s", ":">>)
        /\ LiveDemoEmitted(ret) => FieldGiven(args.repo_info, <<"H", "o", "m", "e", "p", "a", "g", "e", ":">>)
        /\ LicenseEmitted(ret) => FieldGiven(args.repo_info, <<"L", "i", "c", "e", "n", "s", "e", ":">>)

\* a report without any of the three fields, and a document without any of the
\* three sections
C8_Witness ==
    /\ op = "generate_smart_readme"
    /\ raised = ""
    /\ FieldAbsent(args.repo_info, <<"T", "o", "p", "i", "c", "s", ":">>)
    /\ FieldAbsent(args.repo_info, <<"H", "o", "m", "e", "p", "a", "g", "e", ":">>)
    /\ FieldAbsent(args.repo_info, <<"L", "i", "c", "e", "n", "s", "e", ":">>)
    /\ ~TopicsEmitted(ret) /\ ~LiveDemoEmitted(ret) /\ ~LicenseEmitted(ret)
    /\ InstallationLines(ret) # << >>

\* the Installation section has the command of the pip/poetry snippet
PipSnippet(inst) == <<"p", "i", "p", " ", "i", "n", "s", "t", "a", "l", "l", " ", "-", "r", " ", "r",
        "e", "q", "u", "i", "r", "e", "m", "e", "n", "t", "s", ".", "t", "x", "t">> \in Range(inst)

\* the Installation section has the command of the npm/yarn snippet
NpmSnippet(inst) == <<"n", "p", "m", " ", "i", "n", "s", "t", "a", "l", "l">> \in Range(inst)

\* the Installation section has the line of the generic clone-only snippet
GenericSnippet(inst) == <<"#", " ", "F", "o", "l", "l", "o", "w", " ", "p", "r", "o", "j", "e", "c", "t",
        "-", "s", "p", "e", "c", "i", "f", "i", "c", " ", "i", "n", "s", "t", "a", "l",
        "l", "a", "t", "i", "o", "n", " ", "i", "n", "s", "t", "r", "u", "c", "t", "i",
        "o", "n", "s">> \in Range(inst)

\* C9: every document of generate_smart_readme has exactly one Installation
\* template: the pip/poetry snippet iff the metadata report contains "python",
\* the npm/yarn snippet iff it contains "javascript" or "node" and not "python",
\* the generic clone-only snippet otherwise; a document with the npm/yarn
\* snippet has "npm install" and no line that mentions pip in the section.
C9_OneInstallationTemplate ==
    op = "generate_smart_readme" =>
        \E inst \in {InstallationLines(ret)}, text \in {Lower(args.repo_info)} :
            \E py \in {Contains(text, <<"p", "y", "t", "h", "o", "n">>)},
               js \in {Contains(text, <<"j", "a", "v", "a", "s", "c", "r", "i", "p", "t">>) \/ Contains(text, <<"n", "o", "d", "e">>)} :
                /\ PipSnippet(inst) <=> py
                /\ NpmSnippet(inst) <=> (js /\ ~py)
                /\ GenericSnippet(inst) <=> (~py /\ ~js)
                /\ NpmSnippet(inst) => \A l \in Range(inst) : ~Contains(l, <<"p", "i", "p">>)

\* a report that names javascript and python gets the pip/poetry snippet alone
C9_Witness ==
    /\ op = "generate_smart_readme"
    /\ Contains(Lower(args.repo_info), <<"j", "a", "v", "a", "s", "c", "r", "i", "p", "t">>)
    /\ Contains(Lower(args.repo_info), <<"p", "y", "t", "h", "o", "n">>)
    /\ PipSnippet(InstallationLines(ret))
    /\ ~NpmSnippet(InstallationLines(ret))
    /\ ~GenericSnippet(InstallationLines(ret))

\* the rule table: the markers of each rule and the features it appends
RuleTable ==
    {[markers |-> {<<"f", "l", "a", "s", "k">>}, features |-> FlaskFeatures],
     [markers |-> {<<"f", "a", "s", "t", "a", "p", "i">>}, features |-> FastApiFeatures],
     [markers |-> {<<"r", "e", "a", "c", "t">>}, features |-> ReactFeatures],
     [markers |-> MlMarkers, features |-> MlFeatures],
     [markers |-> DatabaseMarkers, features |-> DatabaseFeatures],
     [markers |-> {<<"d", "o", "c", "k", "e", "r">>}, features |-> DockerFeatures],
     [markers |-> ApiMarkers, features |-> ApiFeatures]}

\* C10: every rule of extract_project_features (flask, fastapi, react,
\* machine-learning libraries, database engines, docker, api/rest) fires when
\* one of its markers occurs in the lowercased text of either report: its
\* features are in the list whether the marker is in the metadata report or
\* only in the analysis report.
C10_RulesReadBothReports ==
    op = "extract_project_features" =>
        \A r \in RuleTable :
            (\E m \in r.markers : \/ Contains(Lower(args.repo_info), m)
                                   \/ Contains(Lower(args.code_analysis), m)) =>
                \A k \in 1..Len(r.features) : r.features[k] \in Range(lists.features)

\* the texts a success of analyze_code_content may return for the lists it
\* gathered: one per order of the distinct imports
AnalysisRenderings(a) == {FormatAnalysis(a, p) : p \in SetOrders(a.imports)}

DeclaredBranch(world) ==
    IF world.api.status = "ok" THEN world.api.data.default_branch ELSE <<"m", "a", "i", "n">>

\* the candidates the call analyses: the first five of the list
Analysed(candidates) == Take(candidates, 5)

\* the branch of the first content request that names the file, "" if none does
FirstBranchAsked(requests, name) ==
    LET at == {k \in 1..Len(requests) : requests[k][1] = "raw" /\ requests[k][3] = name}
    IN IF at = {} THEN << >> ELSE requests[CHOOSE k \in at : \A j \in at : k <= j][2]

\* the file's content answers on the declared default branch or on master
ContentObtainable(world, name) ==
    \E b \in {DeclaredBranch(world), <<"m", "a", "s", "t", "e", "r">>} :
        RawResponse(world, TheRepo[1], TheRepo[2], b, name).status = "ok"

\* C12: analyze_code_content asks for each candidate's content first on the
\* default branch the repository declares and, only if that request does not
\* succeed, on "master"; a candidate is skipped only when both fail, so every
\* Python or JavaScript/TypeScript candidate whose content one of the two
\* branches holds is analysed, whatever the default branch is called.
C12_ContentFromDeclaredBranchThenMaster ==
    (op = "analyze_code_content" /\ raised = "" /\ key_files # << >>) =>
        /\ \A k \in 1..Len(Analysed(key_files)) :
              FirstBranchAsked(log, key_files[k].name) = DeclaredBranch(args.world)
        /\ Len(perfile) =
              Len(SelectSeq(Analysed(key_files),
                            LAMBDA c : /\ DetectorFor(c.name) # ""
                                       /\ ContentObtainable(args.world, c.name)))

\* the README requests of a call, in the order issued
ReadmeRequests(requests) ==
    SelectSeq(requests, LAMBDA e : e[1] = "raw" /\ e[3] \in Range(readme_files))

\* the (branch, filename) pairs of the README probe in branch-major order
ReadmePairs(default_branch) ==
    [k \in 1..(3 * Len(readme_files)) |->
        <<"raw", <<default_branch, <<"m", "a", "i", "n">>, <<"m", "a", "s", "t", "e", "r">>>>[((k - 1) \div Len(readme_files)) + 1],
          readme_files[((k - 1) % Len(readme_files)) + 1]>>]

\* the answers to the requests, one by one
ReadmeAnswers(world, requests) ==
    [k \in 1..Len(requests) |->
        RawResponse(world, TheRepo[1], TheRepo[2], requests[k][2], requests[k][3])]

\* the README block a report ends with
ReadmeTail(content) == <<"\n", "\n", "E", "x", "i", "s", "t", "i", "n", "g", " ", "R", "E", "A", "D", "M",
        "E", " ", "C", "o", "n", "t", "e", "n", "t", ":", "\n">> \o content \o <<"\n">>

\* the README probe seen from outside: the requests are a prefix of the pairs in
\* branch-major order, none follows the first that returned 200, and the report
\* ends with what that one returned, cut to 8000 characters
ProbeStopsAtFirstSuccess(requests, answers, pairs, report) ==
    /\ Len(requests) <= Len(pairs)
    /\ requests = SubSeq(pairs, 1, Len(requests))
    /\ \A k \in 1..Len(requests) :
          answers[k].status = "ok" =>
              /\ k = Len(requests)
              /\ \/ EndsWith(report, ReadmeTail(Take(answers[k].text, 8000)))
                 \/ (answers[k].text = << >> /\ EndsWith(report, ReadmeTail(<<"N", "o", " ", "R", "E", "A", "D", "M", "E", " ", "f", "o", "u", "n", "d">>)))
    /\ (\A k \in 1..Len(requests) : answers[k].status # "ok") => Len(requests) = Len(pairs)

\* C13: the README probe of fetch_comprehensive_repo_info visits the (branch,
\* filename) pairs in branch-major order over the branches default, "main",
\* "master" and the fixed filename list, and stops at the first pair that
\* returns HTTP 200: no README request follows that success, and the report's
\* README is that response cut to 8000 characters, even when its body is empty.
C13_ReadmeProbeStopsAtFirstSuccess ==
    (op = "fetch_comprehensive_repo_info" /\ args.github_url \in WellFormedUrls) =>
        \E requests \in {ReadmeRequests(log)} :
            ProbeStopsAtFirstSuccess(requests, ReadmeAnswers(args.world, requests),
                                     ReadmePairs(DeclaredBranch(args.world)), ret)

\* an entry whose lowercased name is a conventional entry point
IsEntryPoint(item) == Lower(item.name) \in PriorityNames

\* an entry whose lowercased name has a recognised source extension
IsSource(item) == \E x \in SourceExtensions : EndsWith(Lower(item.name), x)

\* the entries of a listing that may be candidates
Eligible(listing) ==
    {listing[i] : i \in {i \in 1..Len(listing) :
                           /\ listing[i].type = "file"
                           /\ IsEntryPoint(listing[i]) \/ IsSource(listing[i])}}

\* a sequence without the repetitions that follow one another
RECURSIVE Squeeze(_)
Squeeze(q) ==
    IF Len(q) < 2 THEN q
    ELSE IF q[1] = q[2] THEN Squeeze(Tail(q))
    ELSE <<q[1]>> \o Squeeze(Tail(q))

\* the names of the files whose content was requested, in the order asked
ContentNames(requests) ==
    Squeeze([k \in 1..Len(SelectSeq(requests, LAMBDA e : e[1] = "raw")) |->
                SelectSeq(requests, LAMBDA e : e[1] = "raw")[k][3]])

\* the detector results of the candidates whose content came, in list order
ResultsInOrder(world, candidates) ==
    LET got == SelectSeq(candidates,
                         LAMBDA c : /\ DetectorFor(c.name) # ""
                                    /\ FetchContent(world, TheRepo[1], TheRepo[2], c.name).status = "ok")
    IN [k \in 1..Len(got) |->
           Detect(Take(FetchContent(world, TheRepo[1], TheRepo[2], got[k].name).text, 5000),
                  got[k].name)]

\* the call listed the repository and went on to render its report
ListingRead == /\ op = "analyze_code_content"
               /\ raised = ""
               /\ StartsWith(ret, <<"C", "o", "d", "e", " ", "A", "n", "a", "l", "y", "s", "i", "s", " ", "R", "e",
                       "s", "u", "l", "t", "s", ":">>)

\* C14: the candidate list of analyze_code_content holds exactly the files of the
\* top-level listing whose lowercased name is an entry point or has a recognised
\* extension (no directory, no other file), each once, every entry point before
\* every other file; only the first 5 candidates are fetched, and they are
\* fetched and analysed in list order.
C14_CandidatesPrioritisedAndCapped ==
    ListingRead =>
        /\ Range(key_files) = Eligible(args.world.contents.items)
        /\ Len(key_files) = Cardinality(Eligible(args.world.contents.items))
        /\ \A i, j \in 1..Len(key_files) :
              (IsEntryPoint(key_files[i]) /\ ~IsEntryPoint(key_files[j])) => i < j
        /\ ContentNames(log) = [k \in 1..Len(Analysed(key_files)) |-> key_files[k].name]
        /\ perfile = ResultsInOrder(args.world, Analysed(key_files))

\* six candidates, an entry point listed after another source file and moved
\* before it, and five files fetched
C14_Witness ==
    /\ ListingRead
    /\ Len(key_files) > 5
    /\ Len(ContentNames(log)) = 5
    /\ IsEntryPoint(key_files[1])
    /\ \E i \in 1..Len(args.world.contents.items) :
          /\ args.world.contents.items[i] = key_files[Len(key_files)]
          /\ \E j \in (i + 1)..Len(args.world.contents.items) :
                args.world.contents.items[j] = key_files[1]
    /\ Len(perfile) >= 2

\* the lines of the report's package block
PackageBlock(report) ==
    LET ls == Lines(report)
        from == {i \in 1..Len(ls) : ls[i] = <<"C", "o", "n", "f", "i", "g", "u", "r", "a", "t", "i", "o", "n", "/", "P", "a",
                "c", "k", "a", "g", "e", " ", "F", "i", "l", "e", "s", " ", "F", "o", "u", "n",
                "d", ":">>}
        to == {i \in 1..Len(ls) : ls[i] = <<"E", "x", "i", "s", "t", "i", "n", "g", " ", "R", "E", "A", "D", "M", "E", " ",
                "C", "o", "n", "t", "e", "n", "t", ":">>}
    IN IF from = {} \/ to = {} THEN << >>
       ELSE SubSeq(ls, (CHOOSE i \in from : \A j \in from : i <= j) + 1,
                       (CHOOSE i \in to : \A j \in to : i <= j) - 1)

\* the entries of the package block: one line each
PackageEntries(report) == SelectSeq(PackageBlock(report), LAMBDA l : StartsWith(l, <<" ", " ", "\"">>))

\* the answers of the three branches for a descriptor filename, in probe order
DescriptorAnswers(world, path) ==
    [b \in 1..3 |-> RawResponse(world, TheRepo[1], TheRepo[2],
                                <<DeclaredBranch(world), <<"m", "a", "i", "n">>, <<"m", "a", "s", "t", "e", "r">>>>[b], path)]

\* the descriptors some branch answers with HTTP 200
Succeeded(world) ==
    {n \in 1..Len(package_files) :
        \E b \in 1..3 : DescriptorAnswers(world, package_files[n][1])[b].status = "ok"}

\* what the first branch that answers with HTTP 200 returns
FirstAnswer(answers) ==
    answers[CHOOSE b \in 1..3 : answers[b].status = "ok"
                                /\ \A c \in 1..(b - 1) : answers[c].status # "ok"].text

\* the branches asked for a descriptor filename, in the order asked
BranchesAsked(requests, path) ==
    LET q == SelectSeq(requests, LAMBDA e : e[1] = "raw" /\ e[3] = path)
    IN [k \in 1..Len(q) |-> q[k][2]]

\* the branches up to the first that answers with HTTP 200, all three if none does
BranchesDue(world, path) ==
    LET answers == DescriptorAnswers(world, path)
        hits == {b \in 1..3 : answers[b].status = "ok"}
    IN SubSeq(<<DeclaredBranch(world), <<"m", "a", "i", "n">>, <<"m", "a", "s", "t", "e", "r">>>>, 1,
              IF hits = {} THEN 3 ELSE CHOOSE b \in hits : \A c \in hits : b <= c)

\* the line of the package block that holds what descriptor n returned
EntryOf(world, n) ==
    <<" ", " ">> \o JsonString(package_files[n][2]) \o <<":", " ">>
    \o JsonString(Take(FirstAnswer(DescriptorAnswers(world, package_files[n][1])), 3000))

\* C15: for each descriptor filename fetch_comprehensive_repo_info probes the
\* branches default, "main", "master" in order until the first HTTP 200, and
\* every descriptor filename whose probe succeeded has its own entry in the
\* report's package info, holding that response cut to 3000 characters: the
\* entries are as many as the filenames that succeeded, none replaced by another.
C15_EveryDescriptorKeepsItsEntry ==
    (op = "fetch_comprehensive_repo_info" /\ args.github_url \in WellFormedUrls) =>
        /\ \A n \in 1..Len(package_files) :
              BranchesAsked(log, package_files[n][1]) = BranchesDue(args.world, package_files[n][1])
        /\ \A n \in Succeeded(args.world) :
              \E l \in Range(PackageEntries(ret)) :
                  l \in {EntryOf(args.world, n), EntryOf(args.world, n) \o <<",">>}
        /\ Len(PackageEntries(ret)) = Cardinality(Succeeded(args.world))

\* a report of the success path of analyze_code_content
SuccessReport(code_analysis) ==
    /\ StartsWith(code_analysis, <<"C", "o", "d", "e", " ", "A", "n", "a", "l", "y", "s", "i", "s", " ", "R", "e",
            "s", "u", "l", "t", "s", ":", "\n">>)
    /\ <<"A", "P", "I", " ", "E", "n", "d", "p", "o", "i", "n", "t", "s", " ", "D", "e",
            "t", "e", "c", "t", "e", "d", ":">> \in Range(Lines(code_analysis))
    /\ <<"C", "L", "I", " ", "C", "o", "m", "m", "a", "n", "d", "s", ":">> \in Range(Lines(code_analysis))

\* C16, as stated: whenever the analysis report given to extract_project_features
\* is one the success path of analyze_code_content produced, the result lists
\* the feature "Command-line interface" and the use case "Command-line tool",
\* whether or not a CLI command was detected.
C16_ResultListsCliFeature ==
    (op = "extract_project_features" /\ SuccessReport(args.code_analysis)) =>
        /\ <<"-", " ", "C", "o", "m", "m", "a", "n", "d", "-", "l", "i", "n", "e", " ", "i",
                "n", "t", "e", "r", "f", "a", "c", "e">> \in Range(Lines(ret))
        /\ <<"-", " ", "C", "o", "m", "m", "a", "n", "d", "-", "l", "i", "n", "e", " ", "t",
                "o", "o", "l">> \in Range(Lines(ret))

\* C16, amended: whenever the analysis report given to extract_project_features
\* is one the success path of analyze_code_content produced, the feature list
\* the call computes ends with "Command-line interface" and its use cases hold
\* "Command-line tool", whether or not a CLI command was detected; the result
\* lists the use case, and lists the feature exactly when the list has at most 8
\* features (the Key Features list is cut to its first 8).
C16_CliFeatureComputedAndListedWithinCap ==
    (op = "extract_project_features" /\ SuccessReport(args.code_analysis)) =>
        /\ lists.features # << >>
        /\ lists.features[Len(lists.features)] = <<"C", "o", "m", "m", "a", "n", "d", "-", "l", "i", "n", "e", " ", "i", "n", "t",
                "e", "r", "f", "a", "c", "e">>
        /\ <<"C", "o", "m", "m", "a", "n", "d", "-", "l", "i", "n", "e", " ", "t", "o", "o",
                "l">> \in Range(lists.use_cases)
        /\ <<"-", " ", "C", "o", "m", "m", "a", "n", "d", "-", "l", "i", "n", "e", " ", "t",
                "o", "o", "l">> \in Range(Lines(ret))
        /\ (<<"-", " ", "C", "o", "m", "m", "a", "n", "d", "-", "l", "i", "n", "e", " ", "i",
                "n", "t", "e", "r", "f", "a", "c", "e">> \in Range(Lines(ret))) <=> (Len(lists.features) <= 8)

\* a success report without any CLI command, and the feature listed all the same
C16_Witness ==
    /\ op = "extract_project_features"
    /\ SuccessReport(args.code_analysis)
    /\ Contains(args.code_analysis, <<"C", "L", "I", " ", "C", "o", "m", "m", "a", "n", "d", "s", ":", "\n", "\n", "\n",
            "C", "o", "m", "m", "o", "n", " ", "I", "m", "p", "o", "r", "t", "s">>)
    /\ <<"-", " ", "C", "o", "m", "m", "a", "n", "d", "-", "l", "i", "n", "e", " ", "i",
            "n", "t", "e", "r", "f", "a", "c", "e">> \in Range(Lines(ret))
    /\ <<"-", " ", "C", "o", "m", "m", "a", "n", "d", "-", "l", "i", "n", "e", " ", "t",
            "o", "o", "l">> \in Range(Lines(ret))

====
